---------------------------- MODULE Spec2Model ----------------------------
(***************************************************************************)
(* Tile-map coordinates, direction transformations, tile areas and their   *)
(* iterators, and the terraform command, modelled from the C++ sources.    *)
(*                                                                         *)
(* The module holds several specifications over one set of variables; each *)
(* specification drives one part of the program and leaves the variables   *)
(* of the other parts at their idle values:                                *)
(*   SpecDir   direction_func.h : the DirTransformation algebra            *)
(*   SpecArea  tilearea.cpp     : transformations between areas and the    *)
(*                                TransformationTileIterator               *)
(***************************************************************************)
EXTENDS Integers, Sequences, FiniteSets, TLC

VARIABLES
    asserts,    \* build flavour: TRUE when assert() is compiled in
    dtrA,       \* SpecDir: first DirTransformation operand
    dtrB,       \* SpecDir: second DirTransformation operand
    dtrC,       \* SpecDir: third DirTransformation operand
    alg,        \* SpecDir: result record of the last applied operation
    maps,       \* the tile maps: maps[MAIN_MAP] is _main_map, maps[BUFFER_MAP] a clipboard buffer
    srcArea,    \* SpecArea: the source area (a GenericTileArea)
    dstArea,    \* SpecArea: the destination area (a GenericTileArea)
    dtr,        \* SpecArea: the DirTransformation between the two areas
    titer,      \* SpecArea: the TransformationTileIteratorT<true> over srcArea
    seen,       \* SpecArea: destination tiles the iterator has held while valid
    nseen,      \* SpecArea: how many tiles the iterator has held while valid
    rt,         \* SpecArea: the last round trip of a tile through both transformations
    area,       \* SpecOrth, SpecAdd: the orthogonal area iterated, or grown by Add
    oiter,      \* SpecOrth: the OrthogonalTileIteratorT over area
    yielded,    \* SpecOrth: the tiles the iterator has held while valid, in order
    added,      \* SpecAdd: the tiles added since the area was last empty
    nadds,      \* SpecAdd: the number of Add calls made
    darea,      \* SpecDiag: the diagonal area
    diter,      \* SpecDiag: the DiagonalTileIteratorT over darea
    dyielded,   \* SpecDiag: the tiles diter has held so far, in order
    world,      \* SpecTerraform: settings and map contents other than heights
    heights,    \* SpecTerraform: the stored height of each corner (tile) of the main map
    terraform_limit, \* SpecTerraform: Company::terraform_limit of the current company
    cmd,        \* SpecTerraform: the CmdTerraformLand call in progress and its result
    ncmds,      \* SpecTerraform: the number of commands issued
    batch,      \* SpecBatch: the TerraformTiles call in progress, its caller and its result
    call,       \* SpecOps: the last area or tile operation applied and what it returned
    rec         \* SpecRecurse: the call stack of TerraformTileHeight and its TerraformerState

dirVars == <<dtrA, dtrB, dtrC, alg>>

areaVars == <<srcArea, dstArea, dtr, titer, seen, nseen, rt>>

orthVars == <<area, oiter, yielded, added, nadds>>

diagVars == <<darea, diter, dyielded>>

terraVars == <<world, heights, terraform_limit, cmd, ncmds>>

vars == <<asserts, maps, dirVars, areaVars, orthVars, diagVars, terraVars, batch, call, rec>>

\* What the actions of one specification leave alone.
notDir == <<asserts, maps, areaVars, orthVars, diagVars, terraVars, batch, call, rec>>

notArea == <<asserts, maps, dirVars, orthVars, diagVars, terraVars, batch, call, rec>>

notOrth == <<asserts, maps, dirVars, areaVars, diagVars, terraVars, batch, call, rec>>

notDiag == <<asserts, maps, dirVars, areaVars, orthVars, terraVars, batch, call, rec>>

notTerra == <<asserts, maps, dirVars, areaVars, orthVars, diagVars, batch, call, rec>>

notOps == <<asserts, maps, dirVars, areaVars, orthVars, diagVars, terraVars, batch, rec>>

notOpsMaps == <<asserts, dirVars, areaVars, orthVars, diagVars, terraVars, batch, rec>>

notRec == <<asserts, maps, dirVars, areaVars, orthVars, diagVars, batch, call>>

notBatch == <<asserts, maps, dirVars, areaVars, orthVars, diagVars, call, rec>>

(***************************************************************************)
(* Machine integers.                                                       *)
(***************************************************************************)
\* TLC's integers are 32 bits wide and signed.  A C unsigned 32-bit value is
\* held as the signed integer with the same bit pattern: 0xFFFFFFFF is -1, and
\* every value from 2^31 up is negative.  An unsigned comparison v < n with a
\* small n is therefore 0 <= v /\ v < n.  No value of the model reaches 2^31 in
\* magnitude, so + - * need no reduction.
ULess(v, n) == 0 <= v /\ v < n

\* The low n bits of a two's complement integer (x & (2^n - 1)).
LowBits(x, n) == x % (2 ^ n)

RECURSIVE BitAnd(_, _)
BitAnd(x, y) ==
    IF x = 0 \/ y = 0 THEN 0
    ELSE (x % 2) * (y % 2) + 2 * BitAnd(x \div 2, y \div 2)

RECURSIVE BitXor(_, _)
BitXor(x, y) ==
    IF x = 0 THEN y
    ELSE IF y = 0 THEN x
    ELSE ((x + y) % 2) + 2 * BitXor(x \div 2, y \div 2)

RECURSIVE BitOr(_, _)
BitOr(x, y) ==
    IF x = 0 THEN y
    ELSE IF y = 0 THEN x
    ELSE (IF x % 2 = 1 \/ y % 2 = 1 THEN 1 ELSE 0) + 2 * BitOr(x \div 2, y \div 2)

\* GB(x, s, 1): bit s of x.
GetBit(x, s) == (x \div (2 ^ s)) % 2

Abs(x) == IF x < 0 THEN -x ELSE x

Min(a, b) == IF a < b THEN a ELSE b

Max(a, b) == IF a > b THEN a ELSE b

(***************************************************************************)
(* direction_func.h: directions, axes and the DirTransformation group.     *)
(* DirTransformation is 00000irr: i = reflect against the X axis before    *)
(* rotating, rr = number of 90-degree clockwise rotations.                 *)
(***************************************************************************)
DIR_NE == 1
DIR_END == 8
DIAGDIR_NE == 0
DIAGDIR_END == 4
AXIS_X == 0
AXIS_END == 2
DTR_IDENTITY == 0
DTR_ROTATE_90_R == 1
DTR_ROTATE_180 == 2
DTR_ROTATE_90_L == 3
DTR_REFLECT_NE_SW == 4
DTR_REFLECT_W_E == 5
DTR_REFLECT_NW_SE == 6
DTR_REFLECT_N_S == 7
DTR_END == 8
DTR_REFLECTION_BIT == 4
DTR_ROTATION_MASK == 3

Directions == 0 .. (DIR_END - 1)
DiagDirections == 0 .. (DIAGDIR_END - 1)
Axes == 0 .. (AXIS_END - 1)
DirTransformations == DTR_IDENTITY .. (DTR_END - 1)

\* What a call yields when an assert() in it fails in a build with assertions
\* (the program is aborted): a value that is no direction, valid or not.
ASSERT_FAILED == -(2 ^ 30)

IsValidDiagDirection(d) == ULess(d, DIAGDIR_END)

IsValidDirection(d) == ULess(d, DIR_END)

IsValidDirTransform(t) == t >= DTR_IDENTITY /\ t < DTR_END

\* CombineDirTransform testing the reflection bit of a instead of that of b.
CombineDirTransform_TestFirst(a, b) ==
    BitOr(BitAnd(BitXor(a, b), DTR_REFLECTION_BIT),
          BitAnd(LowBits(IF BitAnd(a, DTR_REFLECTION_BIT) # 0 THEN b - a ELSE b + a, 3),
                 DTR_ROTATION_MASK))

CombineDirTransform(a, b) ==
    BitOr(BitAnd(BitXor(a, b), DTR_REFLECTION_BIT),
          BitAnd(LowBits(IF BitAnd(b, DTR_REFLECTION_BIT) # 0 THEN b - a ELSE b + a, 3),
                 DTR_ROTATION_MASK))

InvertDirTransform_Same(transformation) == transformation

InvertDirTransform(transformation) ==
    IF BitAnd(transformation, DTR_REFLECTION_BIT) # 0 THEN transformation
    ELSE BitAnd(LowBits(-transformation, 3), DTR_ROTATION_MASK)

TransformAxis(axis, transformation) == BitXor(axis, BitAnd(transformation, 1))

\* ChangeDir(d, delta): assert(IsValidDirection(d)); (uint)(d + delta) % 8.
\* 8 divides 2^32, so the unsigned remainder is the integer's residue modulo 8.
ChangeDir(d, delta, withAssert) ==
    IF withAssert /\ ~IsValidDirection(d) THEN ASSERT_FAILED
    ELSE (d + delta) % 8

\* ChangeDiagDir(d, delta): assert(IsValidDiagDirection(d)); (uint)(d + delta) % 4.
ChangeDiagDir(d, delta, withAssert) ==
    IF withAssert /\ ~IsValidDiagDirection(d) THEN ASSERT_FAILED
    ELSE (d + delta) % 4

\* The direction TransformDir hands to ChangeDir.
TransformDirArg(direction, transformation) ==
    IF BitAnd(transformation, DTR_REFLECTION_BIT) # 0
    THEN 2 * DIR_NE - direction
    ELSE direction

TransformDir(direction, transformation, withAssert) ==
    IF direction = ASSERT_FAILED THEN ASSERT_FAILED
    ELSE ChangeDir(TransformDirArg(direction, transformation),
                   2 * transformation, withAssert)

\* The direction TransformDiagDir hands to ChangeDiagDir.
TransformDiagDirArg(diag_dir, transformation) ==
    IF BitAnd(transformation, DTR_REFLECTION_BIT) # 0
    THEN 2 * DIAGDIR_NE - diag_dir
    ELSE diag_dir

TransformDiagDir(diag_dir, transformation, withAssert) ==
    IF diag_dir = ASSERT_FAILED THEN ASSERT_FAILED
    ELSE ChangeDiagDir(TransformDiagDirArg(diag_dir, transformation),
                       transformation, withAssert)

(***************************************************************************)
(* road_func.h: RoadBits, one bit per diagonal direction: bit 0 ROAD_NW,   *)
(* bit 1 ROAD_SW, bit 2 ROAD_SE, bit 3 ROAD_NE.                            *)
(***************************************************************************)
ROAD_NW == 1
ROAD_ALL == 15
ROAD_END == 16

RoadBitsValues == 0 .. ROAD_ALL

IsValidRoadBits(r) == ULess(r, ROAD_END)

\* SwapOddEvenBits(x): ((x >> 1) & 0x55) | ((x << 1) & 0xAA) on the 8 bits of
\* a RoadBits value.
SwapOddEvenBits(x) == BitOr(BitAnd(x \div 2, 85), BitAnd(x * 2, 170))

\* RotateRoadBits(r, rot): r | (r << 4) has no common bits, so | is +.
RotateRoadBits(r, rot) ==
    IF asserts /\ ~IsValidRoadBits(r) THEN ASSERT_FAILED
    ELSE BitAnd((r + r * (2 ^ DIAGDIR_END)) \div (2 ^ (rot % DIAGDIR_END)), ROAD_ALL)

TransformRoadBits(road_bits, transformation) ==
    IF BitAnd(transformation, DTR_REFLECTION_BIT) # 0
    THEN RotateRoadBits(SwapOddEvenBits(road_bits), transformation + 3)
    ELSE RotateRoadBits(road_bits, transformation)

\* DiagDirToRoadBits(d): assert(IsValidDiagDirection(d)); ROAD_NW << (3 ^ d).
DiagDirToRoadBits(d) ==
    IF d = ASSERT_FAILED \/ (asserts /\ ~IsValidDiagDirection(d)) THEN ASSERT_FAILED
    ELSE ROAD_NW * (2 ^ BitXor(3, d % DIAGDIR_END))

\* The road bit the transformation sends the bit of direction d to, or 0 when
\* road_bits has no bit for d.
MovedRoadBit(road_bits, d, transformation) ==
    IF BitAnd(road_bits, DiagDirToRoadBits(d)) = 0 THEN 0
    ELSE DiagDirToRoadBits(TransformDiagDir(d, transformation, asserts))

\* The union of the moved bits of all four directions; the program is aborted
\* when one of the calls fails its assertion.
RoadBitsByDirection(road_bits, transformation) ==
    LET moved == [d \in DiagDirections |-> MovedRoadBit(road_bits, d, transformation)]
    IN IF \E d \in DiagDirections : moved[d] = ASSERT_FAILED THEN ASSERT_FAILED
       ELSE BitOr(BitOr(moved[0], moved[1]), BitOr(moved[2], moved[3]))

(***************************************************************************)
(* map_func.h: maps and tile indices.  A map is [size_x, size_y]; a        *)
(* GenericTileIndex is [index, map], the map given by its place in maps.   *)
(* A TileIndex of the main map is the same record with map = MAIN_MAP.     *)
(***************************************************************************)
NULL_MAP == 0
MAIN_MAP == 1
BUFFER_MAP == 2
INVALID_TILE_INDEX == -1

MapSizeX(m) == maps[m].size_x

MapSizeY(m) == maps[m].size_y

MapSize(m) == maps[m].size_x * maps[m].size_y

MapOf(tile) == tile.map

IndexOf(tile) == tile.index

MakeTileIndex(index, m) == [index |-> index, map |-> m]

IsSameMap(a, b) == MapOf(a) = MapOf(b)

IsValidTileIndex(tile) ==
    MapOf(tile) # NULL_MAP /\ ULess(IndexOf(tile), MapSize(MapOf(tile)))

\* TileXY<true>(uint x, uint y, Map *map): no range check on x and y.
TileXY(x, y, m) == MakeTileIndex(y * MapSizeX(m) + x, m)

TileDiffXY(x, y, m) == (y * MapSizeX(m)) + x

\* Unsigned % and / of a valid index.
TileX(tile) == IndexOf(tile) % MapSizeX(MapOf(tile))

TileY(tile) == IndexOf(tile) \div MapSizeX(MapOf(tile))

TransformedNorthCornerDiffC_Swapped(transformation) ==
    LET DIFF_X == 2 ^ DTR_ROTATE_180 + 2 ^ DTR_ROTATE_90_L
                  + 2 ^ DTR_REFLECT_W_E + 2 ^ DTR_REFLECT_NW_SE
        DIFF_Y == 2 ^ DTR_ROTATE_90_R + 2 ^ DTR_ROTATE_180
                  + 2 ^ DTR_REFLECT_NE_SW + 2 ^ DTR_REFLECT_W_E
    IN [x |-> GetBit(DIFF_Y, transformation), y |-> GetBit(DIFF_X, transformation)]

\* The lookup tables DIFF_X and DIFF_Y are bit arrays indexed by the transformation.
TransformedNorthCornerDiffC(transformation) ==
    LET DIFF_X == 2 ^ DTR_ROTATE_180 + 2 ^ DTR_ROTATE_90_L
                  + 2 ^ DTR_REFLECT_W_E + 2 ^ DTR_REFLECT_NW_SE
        DIFF_Y == 2 ^ DTR_ROTATE_90_R + 2 ^ DTR_ROTATE_180
                  + 2 ^ DTR_REFLECT_NE_SW + 2 ^ DTR_REFLECT_W_E
    IN [x |-> GetBit(DIFF_X, transformation), y |-> GetBit(DIFF_Y, transformation)]

\* Point TransformTile(int x, int y, TileTransformation): declared in map_func.h,
\* defined outside the given sources.  The direction transformation is applied
\* to the coordinate (reflect against the X axis, y -> -y, when the reflection
\* bit is set; then one (x, y) -> (y, -x) per 90-degree rotation to the right),
\* then the offset is added.
RECURSIVE RotatePoint(_, _)
RotatePoint(pt, n) ==
    IF n = 0 THEN pt ELSE RotatePoint([x |-> pt.y, y |-> -pt.x], n - 1)

TransformPoint(x, y, transformation) ==
    LET refl == IF BitAnd(transformation.dtr, DTR_REFLECTION_BIT) # 0
                THEN [x |-> x, y |-> -y] ELSE [x |-> x, y |-> y]
        rot  == RotatePoint(refl, BitAnd(transformation.dtr, DTR_ROTATION_MASK))
    IN [x |-> rot.x + transformation.offset.x, y |-> rot.y + transformation.offset.y]

\* TransformationBetweenTiles: the transformation with the given direction part
\* that sends (from_x, from_y) to (to_x, to_y).  Defined outside the given sources.
TransformationBetweenTiles(from_x, from_y, to_x, to_y, t) ==
    LET zero == [dtr |-> t, offset |-> [x |-> 0, y |-> 0]]
        img  == TransformPoint(from_x, from_y, zero)
    IN [dtr |-> t, offset |-> [x |-> to_x - img.x, y |-> to_y - img.y]]

\* TransformTile(tile, transformation, dest_map) of map_func.h.
TransformTile(tile, transformation, dest_map) ==
    LET ret == TransformPoint(TileX(tile), TileY(tile), transformation)
    IN TileXY(ret.x, ret.y, dest_map)

\* TransformDimension: width and height swap when the transformation swaps the
\* axes.  Defined outside the given sources.
TransformDimension(size, t) ==
    IF TransformAxis(AXIS_X, t) = AXIS_X THEN size
    ELSE [width |-> size.height, height |-> size.width]

(***************************************************************************)
(* tilearea_type.h, tilearea.cpp: orthogonal areas and their iterators.    *)
(* An area is [tile, w, h], w and h being uint16 fields.                   *)
(***************************************************************************)
UINT8_RANGE == 256

\* OrthogonalTileAreaT(TileIndexType tile, uint8 w, uint8 h): the extents pass
\* through 8-bit parameters before they reach the 16-bit fields.
MakeArea(tile, w, h) == [tile |-> tile, w |-> w % UINT8_RANGE, h |-> h % UINT8_RANGE]

\* The tiles an area with base inside its map covers.
AreaTiles(ta) ==
    { TileXY(TileX(ta.tile) + i, TileY(ta.tile) + j, MapOf(ta.tile)) :
        i \in 0 .. (ta.w - 1), j \in 0 .. (ta.h - 1) }

\* TransformationBetweenTileAreas anchored at the base tile of `to`, whatever
\* corner the transformation sends the northern corner to.
TransformationBetweenTileAreas_AnchorAtBase(from, to, t) ==
    TransformationBetweenTiles(TileX(from.tile), TileY(from.tile),
                               TileX(to.tile), TileY(to.tile), t)

\* assert: the extents of `to` are those of `from`, swapped when t swaps the axes.
TransformationBetweenTileAreas(from, to, t) ==
    LET dir == TransformedNorthCornerDiffC(t)
    IN TransformationBetweenTiles(TileX(from.tile), TileY(from.tile),
                                  TileX(to.tile) + (to.w - 1) * dir.x,
                                  TileY(to.tile) + (to.h - 1) * dir.y, t)

TransformationBetweenTileAreaCorners(from, to, t) ==
    LET ret   == TransformationBetweenTileAreas(from, to, t)
        extra == TransformedNorthCornerDiffC(t)
    IN [dtr |-> ret.dtr,
        offset |-> [x |-> ret.offset.x + extra.x, y |-> ret.offset.y + extra.y]]

\* GenericTileArea TransformTileArea(ta, transformation, dst_map)
TransformTileArea(ta, transformation, dst_map) ==
    LET size == TransformDimension([width |-> ta.w, height |-> ta.h], transformation.dtr)
        pt   == TransformPoint(TileX(ta.tile), TileY(ta.tile), transformation)
        dir  == TransformedNorthCornerDiffC(transformation.dtr)
    IN MakeArea(TileXY(pt.x - (size.width - 1) * dir.x,
                       pt.y - (size.height - 1) * dir.y, dst_map),
                size.width, size.height)

\* OrthogonalTileIteratorT(const OrthogonalTileAreaT &ta)
OrthogonalTileIterator(ta) ==
    [tile |-> IF ta.w = 0 \/ ta.h = 0
              THEN MakeTileIndex(INVALID_TILE_INDEX, MapOf(ta.tile))
              ELSE ta.tile,
     w |-> ta.w, x |-> ta.w, y |-> ta.h]

OrthogonalTileIterator_Inc_NextIndex(it) ==
    IF it.x - 1 > 0
    THEN [it EXCEPT !.x = it.x - 1, !.tile.index = it.tile.index + 1]
    ELSE IF it.y - 1 > 0
    THEN [it EXCEPT !.x = it.w, !.y = it.y - 1, !.tile.index = it.tile.index + 1]
    ELSE [it EXCEPT !.x = it.x - 1, !.y = it.y - 1,
                    !.tile.index = INVALID_TILE_INDEX]

\* OrthogonalTileIteratorT::operator++ (asserts that the tile is not the sentinel)
OrthogonalTileIterator_Inc(it) ==
    IF it.x - 1 > 0
    THEN [it EXCEPT !.x = it.x - 1, !.tile.index = it.tile.index + 1]
    ELSE IF it.y - 1 > 0
    THEN [it EXCEPT !.x = it.w, !.y = it.y - 1,
                    !.tile.index = it.tile.index
                                   + (TileDiffXY(1, 1, MapOf(it.tile)) - it.w)]
    ELSE [it EXCEPT !.x = it.x - 1, !.y = it.y - 1,
                    !.tile.index = INVALID_TILE_INDEX]

\* TransformationTileIteratorT::UpdateDstTile
UpdateDstTile_Stale(it) == it

UpdateDstTile(it) ==
    IF IndexOf(it.src_iter.tile) = INVALID_TILE_INDEX
    THEN [it EXCEPT !.tile.index = INVALID_TILE_INDEX]
    ELSE [it EXCEPT !.tile.index =
            IndexOf(TransformTile(it.src_iter.tile, it.transformation, MapOf(it.tile)))]

\* TransformationTileIteratorT(src_area, transformation, dst_map)
TransformationTileIterator(src_area, transformation, dst_map) ==
    UpdateDstTile([tile |-> MakeTileIndex(INVALID_TILE_INDEX, dst_map),
                   src_iter |-> OrthogonalTileIterator(src_area),
                   transformation |-> transformation])

\* TransformationTileIteratorT::operator++
TransformationTileIterator_Inc(it) ==
    UpdateDstTile([it EXCEPT !.src_iter = OrthogonalTileIterator_Inc(it.src_iter)])

SrcTile(it) == it.src_iter.tile

DstTile(it) == it.tile

\* IsInsideBS(x, base, size): (uint)(x - base) < size.
IsInsideBS(x, base, size) == ULess(x - base, size)

\* OrthogonalTileAreaT(): tile(INVALID_TILE), w(0), h(0); a generic tile index
\* made of INVALID_TILE alone belongs to no map.
EmptyArea == [tile |-> MakeTileIndex(INVALID_TILE_INDEX, NULL_MAP), w |-> 0, h |-> 0]

\* OrthogonalTileAreaT::Clear
Clear(ta) == [ta EXCEPT !.tile.index = INVALID_TILE_INDEX, !.w = 0, !.h = 0]

Add_KeepBase(ta, to_add) ==
    IF ~IsValidTileIndex(ta.tile)
    THEN [tile |-> to_add, w |-> 1, h |-> 1]
    ELSE LET sx == TileX(ta.tile)
             sy == TileY(ta.tile)
             ex == Max(TileX(to_add), sx + ta.w - 1)
             ey == Max(TileY(to_add), sy + ta.h - 1)
         IN [tile |-> TileXY(sx, sy, MapOf(to_add)),
             w |-> ex - sx + 1, h |-> ey - sy + 1]

\* OrthogonalTileAreaT::Add (asserts that to_add is on the map of the area)
Add(ta, to_add) ==
    IF ~IsValidTileIndex(ta.tile)
    THEN [tile |-> to_add, w |-> 1, h |-> 1]
    ELSE LET sx == Min(TileX(to_add), TileX(ta.tile))
             sy == Min(TileY(to_add), TileY(ta.tile))
             ex == Max(TileX(to_add), TileX(ta.tile) + ta.w - 1)
             ey == Max(TileY(to_add), TileY(ta.tile) + ta.h - 1)
         IN [tile |-> TileXY(sx, sy, MapOf(to_add)),
             w |-> ex - sx + 1, h |-> ey - sy + 1]

\* OrthogonalTileAreaT::Contains
Contains(ta, tile) ==
    IF ta.w = 0 THEN FALSE
    ELSE /\ IsInsideBS(TileX(tile), TileX(ta.tile), ta.w)
         /\ IsInsideBS(TileY(tile), TileY(ta.tile), ta.h)

(***************************************************************************)
(* tilearea.cpp: diagonal areas [tile, a, b] and their iterator.           *)
(***************************************************************************)
\* C integer division, which truncates toward zero.
CDiv(n, d) == IF n >= 0 THEN n \div d ELSE -((-n) \div d)

DiagonalTileArea_NoPastEnd(start, end) ==
    [tile |-> start,
     a |-> TileY(end) + TileX(end) - TileY(start) - TileX(start),
     b |-> TileY(end) - TileX(end) - TileY(start) + TileX(start)]

\* DiagonalTileAreaT(start, end): asserts both tiles valid and on one map.
DiagonalTileArea(start, end) ==
    LET a == TileY(end) + TileX(end) - TileY(start) - TileX(start)
        b == TileY(end) - TileX(end) - TileY(start) + TileX(start)
    IN [tile |-> start,
        a |-> IF a > 0 THEN a + 1 ELSE a - 1,
        b |-> IF b > 0 THEN b + 1 ELSE b - 1]

\* DiagonalTileAreaT::Contains
DiagonalContains(da, tile) ==
    LET a  == TileY(tile) + TileX(tile)
        b  == TileY(tile) - TileX(tile)
        sa == TileY(da.tile) + TileX(da.tile)
        sb == TileY(da.tile) - TileX(da.tile)
        ea == sa + da.a
        eb == sb + da.b
        start_a == IF sa > ea THEN ea + 1 ELSE sa
        end_a   == IF sa > ea THEN sa + 1 ELSE ea
        start_b == IF sb > eb THEN eb + 1 ELSE sb
        end_b   == IF sb > eb THEN sb + 1 ELSE eb
    IN a >= start_a /\ a < end_a /\ b >= start_b /\ b < end_b

\* DiagonalTileIteratorT(const DiagonalTileAreaT &ta)
DiagonalTileIterator(da) ==
    [tile |-> da.tile, base_x |-> TileX(da.tile), base_y |-> TileY(da.tile),
     a_cur |-> 0, b_cur |-> 0, a_max |-> da.a, b_max |-> da.b]

\* One pass through the body of the do-while loop of operator++.
DiagonalStep(it) ==
    LET special == it.a_max = 1 \/ it.a_max = -1
        a_adv   == IF it.a_max > 0 THEN it.a_cur + 2 ELSE it.a_cur - 2
        new_line == IF it.a_max > 0 THEN a_adv >= it.a_max ELSE a_adv <= it.a_max
        a_cur == IF special THEN 0
                 ELSE IF new_line
                      THEN (IF Abs(a_adv) % 2 # 0 THEN 0
                            ELSE IF it.a_max > 0 THEN 1 ELSE -1)
                      ELSE a_adv
        b_cur == IF special
                 THEN (IF it.b_max > 0 THEN Min(it.b_cur + 2, it.b_max)
                       ELSE Max(it.b_cur - 2, it.b_max))
                 ELSE IF new_line
                      THEN (IF it.b_max > 0 THEN it.b_cur + 1 ELSE it.b_cur - 1)
                      ELSE it.b_cur
        x == it.base_x + CDiv(a_cur - b_cur, 2)
        y == it.base_y + CDiv(b_cur + a_cur, 2)
        m == MapOf(it.tile)
    IN [it EXCEPT !.a_cur = a_cur, !.b_cur = b_cur,
                  !.tile = IF ~ULess(x, MapSizeX(m)) \/ ~ULess(y, MapSizeY(m))
                           THEN MakeTileIndex(INVALID_TILE_INDEX, m)
                           ELSE TileXY(x, y, m)]

\* DiagonalTileIteratorT::operator++ (asserts that the tile is valid)
RECURSIVE DiagonalLoop(_)
DiagonalLoop(it) ==
    CHOOSE r \in { IF ~IsValidTileIndex(nxt.tile) /\ nxt.b_max # nxt.b_cur
                   THEN DiagonalLoop(nxt)
                   ELSE nxt : nxt \in {DiagonalStep(it)} } : TRUE

DiagonalTileIterator_Inc_NoSkip(it) ==
    LET nxt == DiagonalStep(it)
    IN IF nxt.b_max = nxt.b_cur
       THEN [nxt EXCEPT !.tile.index = INVALID_TILE_INDEX]
       ELSE nxt

DiagonalTileIterator_Inc(it) ==
    LET nxt == DiagonalLoop(it)
    IN IF nxt.b_max = nxt.b_cur
       THEN [nxt EXCEPT !.tile.index = INVALID_TILE_INDEX]
       ELSE nxt

(***************************************************************************)
(* terraform_cmd.cpp: CmdTerraformLand on the main map.  A TileIndex of    *)
(* the main map is its raw index; the height of a tile is the height of    *)
(* its north corner.  A TerraformerState is [dirty_tiles,                  *)
(* tile_to_new_height], the latter a function on the tiles changed so far. *)
(***************************************************************************)
SLOPE_W == 1
SLOPE_S == 2
SLOPE_E == 4
SLOPE_N == 8
TERRAFORM_LIMIT_UNIT == 65536

MainTile(index) == MakeTileIndex(index, MAIN_MAP)

MapMaxX(m) == MapSizeX(m) - 1

MapMaxY(m) == MapSizeY(m) - 1

Delta(a, b) == IF a < b THEN b - a ELSE a - b

\* TileHeight(tile): outside the given sources; the stored height of the corner.
TileHeight(tile) == heights[tile]

\* IsTileType(tile, MP_VOID): the southern border tiles are void, and with
\* freeform edges the northern border tiles as well.
IsVoidTile(tile) ==
    LET x == TileX(MainTile(tile))
        y == TileY(MainTile(tile))
    IN \/ x = MapMaxX(MAIN_MAP) \/ y = MapMaxY(MAIN_MAP)
       \/ (world.freeform_edges /\ (x = 0 \/ y = 0))

EmptyTerraformerState == [dirty_tiles |-> {}, tile_to_new_height |-> <<>>]

TerraformGetHeightOfTile(ts, tile) ==
    IF tile \in DOMAIN ts.tile_to_new_height
    THEN ts.tile_to_new_height[tile]
    ELSE TileHeight(tile)

TerraformSetHeightOfTile(ts, tile, height) ==
    [ts EXCEPT !.tile_to_new_height =
        [t \in (DOMAIN ts.tile_to_new_height) \cup {tile} |->
            IF t = tile THEN height ELSE ts.tile_to_new_height[t]]]

TerraformAddDirtyTileAround(ts, tile) ==
    LET x == TileX(MainTile(tile))
        y == TileY(MainTile(tile))
    IN [ts EXCEPT !.dirty_tiles = ts.dirty_tiles
            \cup (IF y >= 1 THEN {tile + TileDiffXY(0, -1, MAIN_MAP)} ELSE {})
            \cup (IF y >= 1 /\ x >= 1 THEN {tile + TileDiffXY(-1, -1, MAIN_MAP)} ELSE {})
            \cup (IF x >= 1 THEN {tile + TileDiffXY(-1, 0, MAIN_MAP)} ELSE {})
            \cup {tile}]

\* _terraform_tilepos: each entry undoes the last move and makes the next.
TerraformTilepos == << [x |-> 1, y |-> 0], [x |-> -2, y |-> 0],
                       [x |-> 1, y |-> 1], [x |-> 0, y |-> -2] >>

CmdFailed(ts, err, err_tile) ==
    [ok |-> FALSE, ts |-> ts, cost |-> 0, err |-> err, err_tile |-> err_tile]

CmdSucceeded(ts, cost) ==
    [ok |-> TRUE, ts |-> ts, cost |-> cost, err |-> "", err_tile |-> INVALID_TILE_INDEX]

TerraformNeighbourHeight_SameHeight(r, height_diff) == r + height_diff

\* "Terraform the neighboured corner. The resulting height difference should
\* be 1": height_diff += (height_diff < 0 ? 1 : -1); the call aims at
\* r + height_diff.
TerraformNeighbourHeight(r, height_diff) ==
    r + height_diff + (IF height_diff < 0 THEN 1 ELSE -1)

HeightDiffTooLarge_AboveTwo(height_diff) == Abs(height_diff) > 2

\* "Is the height difference to the neighboured corner greater than 1?"
HeightDiffTooLarge(height_diff) == Abs(height_diff) > 1

\* TerraformTileHeight(ts, tile, height) and its loop over the four neighbours
\* (k is the position in _terraform_tilepos, tile the corner reached so far).
RECURSIVE TerraformTileHeight(_, _, _, _)
RECURSIVE TerraformNeighbours(_, _, _, _, _, _, _)
TerraformNeighbours(ts, err_tile, orig_tile, tile, height, k, total_cost) ==
    IF k > Len(TerraformTilepos) THEN [CmdSucceeded(ts, total_cost) EXCEPT !.err_tile = err_tile]
    ELSE
      LET t == tile + TileDiffXY(TerraformTilepos[k].x, TerraformTilepos[k].y, MAIN_MAP)
      IN IF \/ ~ULess(t, MapSize(MAIN_MAP))
            \/ Delta(TileX(MainTile(orig_tile)), TileX(MainTile(t))) = MapSizeX(MAIN_MAP) - 1
            \/ Delta(TileY(MainTile(orig_tile)), TileY(MainTile(t))) = MapSizeY(MAIN_MAP) - 1
         THEN TerraformNeighbours(ts, err_tile, orig_tile, t, height, k + 1, total_cost)
         ELSE
           LET r == TerraformGetHeightOfTile(ts, t)
               height_diff == height - r
           IN IF HeightDiffTooLarge(height_diff)
              THEN LET cost == TerraformTileHeight(ts, err_tile, t,
                                   TerraformNeighbourHeight(r, height_diff))
                   IN IF ~cost.ok THEN cost
                      ELSE TerraformNeighbours(cost.ts, cost.err_tile, orig_tile, t, height,
                                               k + 1, total_cost + cost.cost)
              ELSE TerraformNeighbours(ts, err_tile, orig_tile, t, height, k + 1, total_cost)

TerraformTileHeight(ts, err_tile, tile, height) ==
    LET x == TileX(MainTile(tile))
        y == TileY(MainTile(tile))
    IN IF height < 0 THEN CmdFailed(ts, "STR_ERROR_ALREADY_AT_SEA_LEVEL", err_tile)
       ELSE IF height > world.max_heightlevel THEN CmdFailed(ts, "STR_ERROR_TOO_HIGH", err_tile)
       ELSE IF height = TerraformGetHeightOfTile(ts, tile) THEN CmdFailed(ts, "CMD_ERROR", err_tile)
       ELSE IF /\ ~world.freeform_edges
               /\ (x <= 1 \/ y <= 1 \/ x >= MapMaxX(MAIN_MAP) - 1 \/ y >= MapMaxY(MAIN_MAP) - 1)
       THEN CmdFailed(ts, "STR_ERROR_TOO_CLOSE_TO_EDGE_OF_MAP",
                      IndexOf(TileXY(IF x = 1 THEN 0 ELSE x, IF y = 1 THEN 0 ELSE y, MAIN_MAP)))
       ELSE TerraformNeighbours(
                TerraformSetHeightOfTile(TerraformAddDirtyTileAround(ts, tile), tile, height),
                err_tile, tile, tile, height, 1, 1)

\* The corner loop of CmdTerraformLand: corners W, S, E and N of the tile, in that
\* order, each moved by `direction` from its stored height.
CornerSteps(tile, p1) ==
    LET pick(bit, t, guarded) ==
            IF BitAnd(p1, bit) # 0 /\ (~guarded \/ ULess(t, MapSize(MAIN_MAP)))
            THEN <<t>> ELSE <<>>
    IN pick(SLOPE_W, tile + TileDiffXY(1, 0, MAIN_MAP), TRUE)
       \o pick(SLOPE_S, tile + TileDiffXY(1, 1, MAIN_MAP), TRUE)
       \o pick(SLOPE_E, tile + TileDiffXY(0, 1, MAIN_MAP), TRUE)
       \o pick(SLOPE_N, tile + TileDiffXY(0, 0, MAIN_MAP), FALSE)

RECURSIVE TerraformCorners(_, _, _, _, _)
TerraformCorners(ts, err_tile, corners, direction, total_cost) ==
    IF corners = <<>> THEN [CmdSucceeded(ts, total_cost) EXCEPT !.err_tile = err_tile]
    ELSE LET t    == Head(corners)
             cost == TerraformTileHeight(ts, err_tile, t, TileHeight(t) + direction)
         IN IF ~cost.ok THEN cost
            ELSE TerraformCorners(cost.ts, cost.err_tile, Tail(corners), direction,
                                  total_cost + cost.cost)

\* IsBridgeAbove, GetBridgeHeight(GetSouthernBridgeEnd(tile)), IsTunnelInWay and the
\* per-tile-type terraform_tile_proc read map contents kept outside the given
\* sources; the world records which tiles lie under a bridge (and its height),
\* over a tunnel (and its height), and which tiles' hooks refuse.
IsBridgeAbove(tile) == \E b \in world.bridges : b.tile = tile

GetBridgeHeight(tile) == (CHOOSE b \in world.bridges : b.tile = tile).height

IsTunnelInWay(tile, z) == [tile |-> tile, z |-> z] \in world.tunnels

TerraformTileProcFails(tile) == tile \in world.refuse

\* The checks of validation pass 0 on one dirty tile: "" when they all pass.
ValidateDirtyTile(ts, tile, direction) ==
    LET z_N == TerraformGetHeightOfTile(ts, tile + TileDiffXY(0, 0, MAIN_MAP))
        z_W == TerraformGetHeightOfTile(ts, tile + TileDiffXY(1, 0, MAIN_MAP))
        z_S == TerraformGetHeightOfTile(ts, tile + TileDiffXY(1, 1, MAIN_MAP))
        z_E == TerraformGetHeightOfTile(ts, tile + TileDiffXY(0, 1, MAIN_MAP))
        z_min == Min(Min(z_N, z_W), Min(z_S, z_E))
        z_max == Max(Max(z_N, z_W), Max(z_S, z_E))
    IN IF IsBridgeAbove(tile) /\ direction = 1 /\ GetBridgeHeight(tile) <= z_max
       THEN "STR_ERROR_MUST_DEMOLISH_BRIDGE_FIRST"
       ELSE IF /\ IsBridgeAbove(tile) /\ direction = -1
               /\ GetBridgeHeight(tile) > z_min + world.max_bridge_height
       THEN "STR_ERROR_BRIDGE_TOO_HIGH_AFTER_LOWER_LAND"
       ELSE IF direction = -1 /\ IsTunnelInWay(tile, z_min)
       THEN "STR_ERROR_EXCAVATION_WOULD_DAMAGE"
       ELSE IF TerraformTileProcFails(tile) THEN "terraform_tile_proc failed"
       ELSE ""

ApplyTileHeights_SkipFirst(ts) ==
    LET changed == DOMAIN ts.tile_to_new_height
        first   == CHOOSE t \in changed : \A u \in changed : t <= u
    IN [t \in DOMAIN heights |->
          IF t \in changed /\ t # first THEN ts.tile_to_new_height[t] ELSE heights[t]]

\* The loop of SetTileHeight calls over tile_to_new_height.
ApplyTileHeights(ts) ==
    [t \in DOMAIN heights |->
        IF t \in DOMAIN ts.tile_to_new_height THEN ts.tile_to_new_height[t]
        ELSE heights[t]]

\* GB(c->terraform_limit, 16, 16): the budget in whole corners.
TerraformLimitBudget(limit) == (limit \div TERRAFORM_LIMIT_UNIT) % TERRAFORM_LIMIT_UNIT

TerraformLimitAfter_Unscaled(limit, n) == limit - n

\* c->terraform_limit -= (uint32)ts.tile_to_new_height.size() << 16
TerraformLimitAfter(limit, n) == limit - n * TERRAFORM_LIMIT_UNIT

EarlyReturn_AfterApply(ts, exec) ==
    [hooked |-> {}, heights |-> IF exec THEN ApplyTileHeights(ts) ELSE heights,
     limit |-> terraform_limit]

\* A return out of the collect phase or out of pass 0 (`if (cost.Failed()) return
\* cost`, return_cmd_error): no hook has run with DC_EXEC, nothing is stored.
EarlyReturn(ts, exec) ==
    [hooked |-> {}, heights |-> heights, limit |-> terraform_limit]

\* CmdTerraformLand(tile, flags, p1, p2) up to its return: the result, the
\* tiles whose hook ran with DC_EXEC, and the new heights and budget.
TerraformLandResult(tile, exec, p1, p2) ==
    LET direction == IF p2 # 0 THEN 1 ELSE -1
        collect == TerraformCorners(EmptyTerraformerState, INVALID_TILE_INDEX,
                                    CornerSteps(tile, p1), direction, 0)
        ts      == collect.ts
        checked == { t \in ts.dirty_tiles : ~IsVoidTile(t) }
        failing == { t \in checked : ValidateDirtyTile(ts, t, direction) # "" }
        first   == CHOOSE t \in failing : \A u \in failing : t <= u
        changed == DOMAIN ts.tile_to_new_height
        none    == EarlyReturn(ts, exec)
    IN IF ~collect.ok THEN [res |-> collect] @@ none
       ELSE IF failing # {}
       THEN [res |-> CmdFailed(ts, ValidateDirtyTile(ts, first, direction), first)] @@ none
       ELSE IF world.company /\ TerraformLimitBudget(terraform_limit) < Cardinality(changed)
       THEN [res |-> CmdFailed(ts, "STR_ERROR_TERRAFORM_LIMIT_REACHED", collect.err_tile),
             hooked |-> IF exec THEN checked ELSE {},
             heights |-> heights, limit |-> terraform_limit]
       ELSE [res |-> collect,
             hooked |-> IF exec THEN checked ELSE {},
             heights |-> IF exec THEN ApplyTileHeights(ts) ELSE heights,
             limit |-> IF exec /\ world.company
                       THEN TerraformLimitAfter(terraform_limit, Cardinality(changed))
                       ELSE terraform_limit]

\* Every two corners adjacent along a grid axis differ in height by at most 1.
HeightsSmooth(h) ==
    \A t \in DOMAIN h :
        /\ (TileX(MainTile(t)) < MapMaxX(MAIN_MAP) => Abs(h[t] - h[t + 1]) <= 1)
        /\ (TileY(MainTile(t)) < MapMaxY(MAIN_MAP) =>
                Abs(h[t] - h[t + TileDiffXY(0, 1, MAIN_MAP)]) <= 1)

(***************************************************************************)
(* terraform_cmd.cpp: TerraformTiles and its callers CmdLevelLand,         *)
(* LevelPasteLand and CopyPasteHeights.  The call in progress is the       *)
(* record `batch`: the arguments and locals of TerraformTiles, the globals *)
(* _terraform_err_tile and _additional_cash_required, and the place the    *)
(* call has reached (pc): "outer" and "inner" are the tests of the two for *)
(* loops, "done" is after the caller has taken the result.                 *)
(***************************************************************************)
STR_NULL == "STR_NULL"

INT32_MAX == 2147483647

\* OrthogonalTileAreaT(start, end): asserts both tiles valid and on one map.
OrthogonalTileArea(start, end) ==
    LET sx == Min(TileX(start), TileX(end))
        sy == Min(TileY(start), TileY(end))
        ex == Max(TileX(start), TileX(end))
        ey == Max(TileY(start), TileY(end))
    IN [tile |-> TileXY(sx, sy, MapOf(start)), w |-> ex - sx + 1, h |-> ey - sy + 1]

\* TileHeight of a generic tile index: the main map's heights, or those kept
\* in the clipboard buffer.
GenericTileHeight(tile) ==
    IF MapOf(tile) = MAIN_MAP THEN heights[IndexOf(tile)]
    ELSE world.buffer_heights[IndexOf(tile)]

Clamp(a, lo, hi) == IF a <= lo THEN lo ELSE IF a >= hi THEN hi ELSE a

\* The three iterator classes behind TileIterator: `*iter` and `++(*iter)`.
IterTile(it) == IndexOf(it.it.tile)

IterInc(it) ==
    [it EXCEPT !.it = CASE it.kind = "orthogonal" -> OrthogonalTileIterator_Inc(it.it)
                        [] it.kind = "diagonal"   -> DiagonalTileIterator_Inc(it.it)
                        [] OTHER                  -> TransformationTileIterator_Inc(it.it)]

GetTileTargetHeight_Unclamped(height_source, it) ==
    IF height_source.kind = "level"
    THEN TileHeight(IterTile(it))
    ELSE GenericTileHeight(SrcTile(it.it)) + height_source.height_delta

\* LevelLandHeightSource / CopyPasteHeightSource ::GetTileTargetHeight
GetTileTargetHeight(height_source, it) ==
    IF height_source.kind = "level"
    THEN Clamp(TileHeight(IterTile(it)), height_source.min_height, height_source.max_height)
    ELSE GenericTileHeight(SrcTile(it.it)) + height_source.height_delta

\* DoCommand(t, p1, p2, flags, CMD_TERRAFORM_LAND): the dispatcher is outside the
\* given sources; it runs CmdTerraformLand with the flags it is given.
DoCommand(t, p1, p2, exec) == TerraformLandResult(t, exec, p1, p2)

\* TerraformTiles up to the first test of its outer loop.
TerraformTilesBegin(caller, iter, height_source, exec, available_money) ==
    LET limit == IF ~world.company THEN INT32_MAX
                 ELSE (terraform_limit \div TERRAFORM_LIMIT_UNIT) % TERRAFORM_LIMIT_UNIT
    IN [op |-> caller, pc |-> "outer", iter |-> iter, height_source |-> height_source,
        exec |-> exec, available_money |-> available_money, limit |-> limit,
        result |-> [cost |-> 0, had_success |-> FALSE,
                    last_error |-> IF limit = 0 THEN "STR_ERROR_TERRAFORM_LIMIT_REACHED"
                                   ELSE STR_NULL],
        last_err_tile |-> INVALID_TILE_INDEX,
        terraform_err_tile |-> INVALID_TILE_INDEX,
        additional_cash_required |-> 0,
        start_tile |-> IterTile(iter),
        t |-> INVALID_TILE_INDEX, h |-> 0, curh |-> 0,
        failures |-> <<>>, executed |-> 0, issued |-> 0,
        available_money_arg |-> available_money,
        ret |-> [ok |-> TRUE, cost |-> 0, err |-> STR_NULL]]

CallerTail_ErrorWins(b) ==
    [b EXCEPT !.pc = "done",
        !.ret = IF b.result.last_error # STR_NULL
                THEN [ok |-> FALSE, cost |-> 0, err |-> b.result.last_error]
                ELSE [ok |-> TRUE, cost |-> b.result.cost, err |-> STR_NULL]]

\* What the caller does with the result of TerraformTiles.
CallerTail(b) ==
    IF b.op = "CmdLevelLand"
    THEN [b EXCEPT !.pc = "done",
            !.ret = IF ~b.result.had_success /\ b.result.last_error # STR_NULL
                    THEN [ok |-> FALSE, cost |-> 0, err |-> b.result.last_error]
                    ELSE [ok |-> TRUE, cost |-> b.result.cost, err |-> STR_NULL]]
    ELSE [b EXCEPT !.pc = "done",
            !.terraform_err_tile = IF b.terraform_err_tile = INVALID_TILE_INDEX
                                   THEN b.start_tile ELSE b.terraform_err_tile,
            !.ret = [ok |-> b.result.had_success,
                     cost |-> IF b.result.had_success THEN b.result.cost ELSE 0,
                     err |-> IF b.result.last_error # STR_NULL THEN b.result.last_error
                             ELSE IF b.exec /\ b.additional_cash_required > 0
                             THEN "STR_ERROR_NOT_ENOUGH_CASH_REQUIRES_CURRENCY"
                             ELSE STR_NULL]]

\* The end of TerraformTiles after its loops, then the caller.
TerraformTilesEnd(b) ==
    LET nothing == ~b.result.had_success /\ b.result.last_error = STR_NULL
        last_err_tile == IF nothing THEN INVALID_TILE_INDEX ELSE b.last_err_tile
    IN CallerTail([b EXCEPT
            !.result.last_error = IF nothing THEN "STR_ERROR_ALREADY_LEVELLED" ELSE @,
            !.last_err_tile = last_err_tile,
            !.terraform_err_tile = last_err_tile])

(***************************************************************************)
(* tilearea.cpp: Intersects, Contains(area), Contains(tile) and Expand of  *)
(* OrthogonalTileAreaT.  The tests return the value together with          *)
(* `touched`: whether the call went past its first line, to the            *)
(* assertions and to the coordinates of the two areas.                     *)
(***************************************************************************)
UINT16_RANGE == 65536

\* The two assertions after the first line; a failing assert ends the program.
AreaAssertsHold(this, other_tile, other_w, other_h) ==
    /\ other_w # 0 /\ other_h # 0 /\ this.w # 0 /\ this.h # 0
    /\ IsSameMap(this.tile, other_tile)

\* The comparison Intersects returns; uint arithmetic, so a bottom or right
\* edge of -1 (extent 0 at coordinate 0) is the largest value.
IntersectsTest(this, ta) ==
    LET left1   == TileX(this.tile)
        top1    == TileY(this.tile)
        right1  == left1 + this.w - 1
        bottom1 == top1 + this.h - 1
        left2   == TileX(ta.tile)
        top2    == TileY(ta.tile)
        right2  == left2 + ta.w - 1
        bottom2 == top2 + ta.h - 1
        ugt(a, b) == IF (a < 0) = (b < 0) THEN a > b ELSE a < 0
    IN ~(\/ ugt(left2, right1) \/ ugt(left1, right2)
         \/ ugt(top2, bottom1) \/ ugt(top1, bottom2))

Intersects_AssertFirst(this, ta) ==
    IF asserts /\ ~AreaAssertsHold(this, ta.tile, ta.w, ta.h)
    THEN [ret |-> ASSERT_FAILED, touched |-> TRUE]
    ELSE IF ta.w = 0 \/ this.w = 0 THEN [ret |-> FALSE, touched |-> FALSE]
    ELSE [ret |-> IntersectsTest(this, ta), touched |-> TRUE]

\* OrthogonalTileAreaT::Intersects
Intersects(this, ta) ==
    IF ta.w = 0 \/ this.w = 0 THEN [ret |-> FALSE, touched |-> FALSE]
    ELSE IF asserts /\ ~AreaAssertsHold(this, ta.tile, ta.w, ta.h)
    THEN [ret |-> ASSERT_FAILED, touched |-> TRUE]
    ELSE [ret |-> IntersectsTest(this, ta), touched |-> TRUE]

\* OrthogonalTileAreaT::Contains(const OrthogonalTileAreaT &ta)
ContainsArea(this, ta) ==
    IF ta.w = 0 \/ this.w = 0 THEN [ret |-> FALSE, touched |-> FALSE]
    ELSE IF asserts /\ ~AreaAssertsHold(this, ta.tile, ta.w, ta.h)
    THEN [ret |-> ASSERT_FAILED, touched |-> TRUE]
    ELSE LET left1   == TileX(this.tile)
             top1    == TileY(this.tile)
             right1  == left1 + this.w - 1
             bottom1 == top1 + this.h - 1
             left2   == TileX(ta.tile)
             top2    == TileY(ta.tile)
             right2  == left2 + ta.w - 1
             bottom2 == top2 + ta.h - 1
             uge(a, b) == IF (a < 0) = (b < 0) THEN a >= b ELSE a < 0
         IN [ret |-> /\ uge(left2, left1) /\ uge(right1, right2)
                     /\ uge(top2, top1) /\ uge(bottom1, bottom2),
             touched |-> TRUE]

\* OrthogonalTileAreaT::Contains(TileIndexType tile), with its assertions
ContainsTile(this, tile) ==
    IF this.w = 0 THEN [ret |-> FALSE, touched |-> FALSE]
    ELSE IF asserts /\ ~AreaAssertsHold(this, tile, 1, 1)
    THEN [ret |-> ASSERT_FAILED, touched |-> TRUE]
    ELSE [ret |-> Contains(this, tile), touched |-> TRUE]

\* OrthogonalTileAreaT::Expand: the upper bounds are those of MapSizeX() and
\* MapSizeY(), the sizes of the main map; w and h are 16-bit fields.
Expand(this, rad) ==
    LET x  == TileX(this.tile)
        y  == TileY(this.tile)
        sx == Max(x - rad, 0)
        sy == Max(y - rad, 0)
        ex == Min(x + this.w + rad, MapSizeX(MAIN_MAP))
        ey == Min(y + this.h + rad, MapSizeY(MAIN_MAP))
    IN [tile |-> TileXY(sx, sy, MapOf(this.tile)),
        w |-> (ex - sx) % UINT16_RANGE, h |-> (ey - sy) % UINT16_RANGE]

\* MapLogX(): the main map has power-of-two sides.
MapLogX == CHOOSE k \in 0 .. 30 : 2 ^ k = MapSizeX(MAIN_MAP)

\* TileXY<false>(uint x, uint y, Map *map): the only assertion is that the map
\* is the main map; the index is (y << MapLogX()) + x.
TileXYMain(x, y, m) ==
    IF asserts /\ m # MAIN_MAP THEN MakeTileIndex(ASSERT_FAILED, m)
    ELSE MakeTileIndex(y * (2 ^ MapLogX) + x, MAIN_MAP)

(***************************************************************************)
(* SpecDir: the operands are drawn at Init, each action applies one of the *)
(* operations of direction_func.h to them and records what it returned.    *)
(***************************************************************************)
AlgNone == [op |-> "none"]

DirIdle == dtrA = 0 /\ dtrB = 0 /\ dtrC = 0 /\ alg = AlgNone

NoArea == [w |-> 0, h |-> 0]

RtNone == [op |-> "none"]

AreaIdle ==
    /\ srcArea = NoArea /\ dstArea = NoArea /\ dtr = 0
    /\ titer = NoArea /\ seen = {} /\ nseen = 0 /\ rt = RtNone

OrthIdle ==
    /\ area = NoArea /\ oiter = NoArea /\ yielded = <<>> /\ added = {} /\ nadds = 0

DiagIdle == darea = NoArea /\ diter = NoArea /\ dyielded = <<>>

CmdNone == [op |-> "none"]

BatchNone == [op |-> "none"]

CallNone == [op |-> "none"]

RecNone == [status |-> "none"]

TerraIdle ==
    /\ world = [freeform_edges |-> FALSE] /\ heights = <<>>
    /\ terraform_limit = 0 /\ cmd = CmdNone /\ ncmds = 0
    /\ batch = BatchNone
    /\ call = CallNone
    /\ rec = RecNone

InitDir ==
    /\ asserts \in BOOLEAN
    /\ dtrA \in DirTransformations
    /\ dtrB \in DirTransformations
    /\ dtrC \in DirTransformations
    /\ alg = AlgNone
    /\ maps = <<>>
    /\ AreaIdle /\ OrthIdle /\ DiagIdle /\ TerraIdle

\* InvertDirTransform(a), and both products of a with it
\* (ClipboardToolbarWindow::OnClick combines transformations this way).
ApplyInvert ==
    /\ alg.op = "none"
    /\ alg' = [op    |-> "invert",
               inv   |-> InvertDirTransform(dtrA),
               left  |-> CombineDirTransform(dtrA, InvertDirTransform(dtrA)),
               right |-> CombineDirTransform(InvertDirTransform(dtrA), dtrA)]
    /\ UNCHANGED <<notDir, dtrA, dtrB, dtrC>>

\* The two bracketings of a triple product.
ApplyCombine3 ==
    /\ alg.op = "none"
    /\ alg' = [op  |-> "combine3",
               lhs |-> CombineDirTransform(CombineDirTransform(dtrA, dtrB), dtrC),
               rhs |-> CombineDirTransform(dtrA, CombineDirTransform(dtrB, dtrC))]
    /\ UNCHANGED <<notDir, dtrA, dtrB, dtrC>>

\* Transform a direction, a diagonal direction and an axis by a and then by b,
\* and once by CombineDirTransform(a, b).
ApplyTransformSeq ==
    /\ alg.op = "none"
    /\ \E d \in Directions, dd \in DiagDirections, x \in Axes :
        LET ab == CombineDirTransform(dtrA, dtrB) IN
        alg' = [op       |-> "seq",
                d        |-> d,
                dd       |-> dd,
                x        |-> x,
                dirSeq   |-> TransformDir(TransformDir(d, dtrA, asserts), dtrB, asserts),
                dirOnce  |-> TransformDir(d, ab, asserts),
                diagSeq  |-> TransformDiagDir(TransformDiagDir(dd, dtrA, asserts), dtrB, asserts),
                diagOnce |-> TransformDiagDir(dd, ab, asserts),
                axisSeq  |-> TransformAxis(TransformAxis(x, dtrA), dtrB),
                axisOnce |-> TransformAxis(x, ab)]
    /\ UNCHANGED <<notDir, dtrA, dtrB, dtrC>>

\* TransformDir and TransformDiagDir by a, with the direction each hands to
\* ChangeDir or ChangeDiagDir.
ApplyTransform ==
    /\ alg.op = "none"
    /\ \E d \in Directions, dd \in DiagDirections :
        alg' = [op      |-> "transform",
                d       |-> d,
                dd      |-> dd,
                dirArg  |-> TransformDirArg(d, dtrA),
                dir     |-> TransformDir(d, dtrA, asserts),
                diagArg |-> TransformDiagDirArg(dd, dtrA),
                diag    |-> TransformDiagDir(dd, dtrA, asserts)]
    /\ UNCHANGED <<notDir, dtrA, dtrB, dtrC>>

\* TransformRoadBits by a, and the same bits moved one direction at a time.
ApplyTransformRoadBits ==
    /\ alg.op = "none"
    /\ \E r \in RoadBitsValues :
        alg' = [op    |-> "roadbits",
                r     |-> r,
                ret   |-> TransformRoadBits(r, dtrA),
                byDir |-> RoadBitsByDirection(r, dtrA)]
    /\ UNCHANGED <<notDir, dtrA, dtrB, dtrC>>

NextDir ==
    \/ ApplyInvert
    \/ ApplyCombine3
    \/ ApplyTransformSeq
    \/ ApplyTransform
    \/ ApplyTransformRoadBits

SpecDir == InitDir /\ [][NextDir]_vars

(***************************************************************************)
(* SpecArea: a source area R, a direction transformation and a destination *)
(* area D of the transformed extents are drawn at Init, each inside its    *)
(* map (the main map or a clipboard buffer; source and destination may be  *)
(* the same map).  A TransformationTileIterator<true> is constructed over  *)
(* R with TransformationBetweenTileAreas(R, D, dtr) and advanced until it  *)
(* is exhausted.  Extents are small, or UINT8_RANGE on a map wide enough.  *)
(***************************************************************************)
MapSmall == 4
BufSmallX == 4
BufSmallY == 3
BigRows == 2
MaxExtent == 3
MaxBase == 2

\* The main map has power-of-two sides; a clipboard buffer is its content plus
\* one row and one column (AllocateClipboardBuffer).
MainMapDims ==
    { [size_x |-> MapSmall, size_y |-> MapSmall],
      [size_x |-> 2 * UINT8_RANGE, size_y |-> BigRows] }

BufferMapDims ==
    { [size_x |-> BufSmallX, size_y |-> BufSmallY],
      [size_x |-> UINT8_RANGE + 1, size_y |-> BigRows] }

Extents == (1 .. MaxExtent) \cup {UINT8_RANGE}

\* w and h are set as fields (two-corner constructor, copy, assignment).
AreasOf(m, ws, hs) ==
    { [tile |-> TileXY(x, y, m), w |-> w, h |-> h] :
        <<x, y, w, h>> \in
            { q \in (0 .. MaxBase) \X (0 .. MaxBase) \X ws \X hs :
                q[1] + q[3] <= MapSizeX(m) /\ q[2] + q[4] <= MapSizeY(m) } }

AreaTransformation == TransformationBetweenTileAreas(srcArea, dstArea, dtr)

InitArea ==
    /\ asserts = TRUE
    /\ DirIdle /\ OrthIdle /\ DiagIdle /\ TerraIdle
    /\ maps \in { <<a, b>> : a \in MainMapDims, b \in BufferMapDims }
    /\ dtr \in DirTransformations
    /\ \E sm \in {MAIN_MAP, BUFFER_MAP} :
         srcArea \in AreasOf(sm, Extents \cup {MaxExtent + 1}, Extents)
    /\ \E dm \in {MAIN_MAP, BUFFER_MAP} :
         LET size == TransformDimension([width |-> srcArea.w, height |-> srcArea.h], dtr)
         IN dstArea \in AreasOf(dm, {size.width}, {size.height})
    /\ titer = TransformationTileIterator(srcArea, AreaTransformation, MapOf(dstArea.tile))
    /\ seen = {DstTile(titer)}
    /\ nseen = 1
    /\ rt = RtNone

IterValid == IndexOf(DstTile(titer)) # INVALID_TILE_INDEX

\* ++iter of a loop `for (; IsValidTileIndex(iter); ++iter)`.
IterNext ==
    /\ IterValid
    /\ titer' = TransformationTileIterator_Inc(titer)
    /\ IF IndexOf(DstTile(titer')) # INVALID_TILE_INDEX
       THEN seen' = seen \cup {DstTile(titer')} /\ nseen' = nseen + 1
       ELSE UNCHANGED <<seen, nseen>>
    /\ rt' = RtNone
    /\ UNCHANGED <<notArea, srcArea, dstArea, dtr>>

\* The current source tile is sent to the destination map and back
\* (the way back as GetTilePastePreview derives it).
RoundTrip ==
    /\ IterValid
    /\ rt = RtNone
    /\ LET t    == SrcTile(titer)
           mid  == TransformTile(t, AreaTransformation, MapOf(dstArea.tile))
           back == TransformTile(mid,
                       TransformationBetweenTileAreas(dstArea, srcArea, InvertDirTransform(dtr)),
                       MapOf(srcArea.tile))
       IN rt' = [op |-> "roundtrip", t |-> t, mid |-> mid, back |-> back]
    /\ UNCHANGED <<notArea, srcArea, dstArea, dtr, titer, seen, nseen>>

NextArea == IterNext \/ RoundTrip

SpecArea == InitArea /\ [][NextArea]_vars

IterDone == titer # NoArea /\ ~IterValid

(***************************************************************************)
(* SpecOrth: an OrthogonalTileIterator is constructed over an area lying   *)
(* inside its map (extents 0 included) and advanced until exhausted.       *)
(***************************************************************************)
SmallMaps ==
    { <<[size_x |-> MapSmall, size_y |-> MapSmall],
        [size_x |-> BufSmallX, size_y |-> BufSmallY]>> }

MapTiles(m) == { MakeTileIndex(i, m) : i \in 0 .. (MapSize(m) - 1) }

InitOrth ==
    /\ asserts = TRUE
    /\ maps \in SmallMaps
    /\ DirIdle /\ AreaIdle /\ DiagIdle /\ TerraIdle
    /\ \E m \in {MAIN_MAP, BUFFER_MAP} :
         area \in AreasOf(m, 0 .. MaxExtent, 0 .. MaxExtent)
    /\ oiter = OrthogonalTileIterator(area)
    /\ yielded = IF IndexOf(oiter.tile) = INVALID_TILE_INDEX THEN <<>> ELSE <<oiter.tile>>
    /\ added = {} /\ nadds = 0

\* ++iter of TILE_AREA_LOOP
OrthNext ==
    /\ IndexOf(oiter.tile) # INVALID_TILE_INDEX
    /\ oiter' = OrthogonalTileIterator_Inc(oiter)
    /\ yielded' = IF IndexOf(oiter'.tile) = INVALID_TILE_INDEX
                  THEN yielded ELSE Append(yielded, oiter'.tile)
    /\ UNCHANGED <<notOrth, area, added, nadds>>

NextOrth == OrthNext

SpecOrth == InitOrth /\ [][NextOrth]_vars

\* The k-th tile (k = 1, 2, ...) of the area in row-major order.
RowMajorTile(ta, k) ==
    TileXY(TileX(ta.tile) + ((k - 1) % ta.w), TileY(ta.tile) + ((k - 1) \div ta.w),
           MapOf(ta.tile))

(***************************************************************************)
(* SpecAdd: an area starts empty; tiles of one map are added, and the area *)
(* may be cleared.                                                         *)
(***************************************************************************)
MaxAdds == 4

InitAdd ==
    /\ asserts = TRUE
    /\ maps \in SmallMaps
    /\ DirIdle /\ AreaIdle /\ DiagIdle /\ TerraIdle
    /\ area = EmptyArea
    /\ oiter = NoArea /\ yielded = <<>>
    /\ added = {} /\ nadds = 0

\* area.Add(t) with a valid tile of the map the area is on.
AddTile ==
    /\ nadds < MaxAdds
    /\ \E m \in {MAIN_MAP, BUFFER_MAP} : \E t \in MapTiles(m) :
         /\ \A u \in added : IsSameMap(u, t)
         /\ area' = Add(area, t)
         /\ added' = added \cup {t}
    /\ nadds' = nadds + 1
    /\ UNCHANGED <<notOrth, oiter, yielded>>

\* area.Clear()
ClearArea ==
    /\ nadds > 0
    /\ area' = Clear(area)
    /\ added' = {}
    /\ nadds' = 0
    /\ UNCHANGED <<notOrth, oiter, yielded>>

NextAdd == AddTile \/ ClearArea

SpecAdd == InitAdd /\ [][NextAdd]_vars

MinOf(S) == CHOOSE v \in S : \A u \in S : v <= u

MaxOf(S) == CHOOSE v \in S : \A u \in S : v >= u

(***************************************************************************)
(* SpecDiag: a diagonal area is constructed from two valid tiles of one    *)
(* map, a DiagonalTileIterator over it is advanced until exhausted.        *)
(***************************************************************************)
DiagMaps ==
    { <<[size_x |-> 2 * MapSmall, size_y |-> MapSmall],
        [size_x |-> BufSmallX, size_y |-> BufSmallY]>> }

InitDiag ==
    /\ asserts = TRUE
    /\ maps \in DiagMaps
    /\ DirIdle /\ AreaIdle /\ OrthIdle /\ TerraIdle
    /\ \E m \in {MAIN_MAP, BUFFER_MAP} : \E start \in MapTiles(m), end \in MapTiles(m) :
         darea = DiagonalTileArea(start, end)
    /\ diter = DiagonalTileIterator(darea)
    /\ dyielded = <<diter.tile>>

\* ++iter while the iterator is valid.
DiagNext ==
    /\ IsValidTileIndex(diter.tile)
    /\ \E nxt \in {DiagonalTileIterator_Inc(diter)} :
         /\ diter' = nxt
         /\ dyielded' = IF IsValidTileIndex(nxt.tile) THEN Append(dyielded, nxt.tile)
                        ELSE dyielded
    /\ UNCHANGED <<notDiag, darea>>

NextDiag == DiagNext

SpecDiag == InitDiag /\ [][NextDiag]_vars

\* A loop `for (; *iter != INVALID_TILE; ++iter)` keeps stepping.
FairDiag == SpecDiag /\ WF_vars(NextDiag)

(***************************************************************************)
(* SpecTerraform: CmdTerraformLand calls (test or execute, any corner mask *)
(* and direction) on a main map.  Init draws one of a few worlds: a small  *)
(* map with freeform edges, flat or with a hill, with or without a         *)
(* company, with or without a bridge, a tunnel and a refusing tile; and a  *)
(* larger flat map without freeform edges.                                 *)
(***************************************************************************)
MaxCmds == 2
MaxHeightLevel == 4
MaxBridgeHeight == 1
FlatLevel == 1
HillTop == 2
BudgetBig == 16
BudgetSmall == 2
BudgetLowBits == 7
CmdWindow == 3

TerraSmallMap == [size_x |-> MapSmall, size_y |-> MapSmall]

TerraLargeMap == [size_x |-> 2 * MapSmall, size_y |-> 2 * MapSmall]

Settings(freeform, company) ==
    [freeform_edges |-> freeform, company |-> company,
     max_heightlevel |-> MaxHeightLevel, max_bridge_height |-> MaxBridgeHeight,
     bridges |-> {}, tunnels |-> {}, refuse |-> {}]

FlatTerrain(map) == [t \in 0 .. (map.size_x * map.size_y - 1) |-> FlatLevel]

\* A hill around corner (1, 1): HillTop there, one less per step along an axis.
HillTerrain(map) ==
    [t \in 0 .. (map.size_x * map.size_y - 1) |->
        Max(0, HillTop - (Abs((t % map.size_x) - 1) + Abs((t \div map.size_x) - 1)))]

Worlds ==
    { [map |-> TerraSmallMap, world |-> Settings(TRUE, TRUE),
       heights |-> FlatTerrain(TerraSmallMap),
       limit |-> BudgetBig * TERRAFORM_LIMIT_UNIT + BudgetLowBits],
      [map |-> TerraSmallMap, world |-> Settings(TRUE, FALSE),
       heights |-> HillTerrain(TerraSmallMap),
       limit |-> 0],
      [map |-> TerraSmallMap,
       world |-> [Settings(TRUE, TRUE) EXCEPT
                    !.bridges = {[tile |-> MapSmall + 1, height |-> FlatLevel + 1]},
                    !.tunnels = {[tile |-> MapSmall + 2, z |-> FlatLevel - 1]},
                    !.refuse  = {2 * MapSmall + 2}],
       heights |-> FlatTerrain(TerraSmallMap),
       limit |-> BudgetSmall * TERRAFORM_LIMIT_UNIT + BudgetLowBits],
      [map |-> TerraLargeMap, world |-> Settings(FALSE, TRUE),
       heights |-> FlatTerrain(TerraLargeMap),
       limit |-> BudgetBig * TERRAFORM_LIMIT_UNIT] }

InitTerraform ==
    /\ asserts = TRUE
    /\ DirIdle /\ AreaIdle /\ OrthIdle /\ DiagIdle
    /\ \E w \in Worlds :
         /\ maps = <<w.map, [size_x |-> BufSmallX, size_y |-> BufSmallY]>>
         /\ world = w.world
         /\ heights = w.heights
         /\ terraform_limit = w.limit
    /\ cmd = CmdNone
    /\ ncmds = 0
    /\ batch = BatchNone
    /\ call = CallNone
    /\ rec = RecNone

CmdTiles ==
    { t \in 0 .. (MapSize(MAIN_MAP) - 1) :
        TileX(MainTile(t)) <= CmdWindow /\ TileY(MainTile(t)) <= CmdWindow }

\* Single corners, two corners sharing an edge, two opposite corners, all four.
CornerMasks ==
    { SLOPE_W, SLOPE_S, SLOPE_E, SLOPE_N,
      SLOPE_W + SLOPE_S, SLOPE_S + SLOPE_N, SLOPE_W + SLOPE_S + SLOPE_E + SLOPE_N }

\* One call of CmdTerraformLand, from entry to return.
CmdTerraformLand ==
    /\ cmd = CmdNone
    /\ ncmds < MaxCmds
    /\ \E tile \in CmdTiles, p1 \in CornerMasks, p2 \in {0, 1}, exec \in BOOLEAN :
         \E out \in {TerraformLandResult(tile, exec, p1, p2)} :
            /\ cmd' = [op |-> "terraform", tile |-> tile, p1 |-> p1, p2 |-> p2,
                       exec |-> exec, ok |-> out.res.ok, err |-> out.res.err,
                       err_tile |-> out.res.err_tile, cost |-> out.res.cost,
                       changed |-> DOMAIN out.res.ts.tile_to_new_height,
                       hooked |-> out.hooked,
                       smooth_before |-> HeightsSmooth(heights)]
            /\ heights' = out.heights
            /\ terraform_limit' = out.limit
    /\ ncmds' = ncmds + 1
    /\ UNCHANGED <<notTerra, world>>

\* The caller takes the result; the TerraformerState of the call is gone.
CmdReturned ==
    /\ cmd # CmdNone
    /\ cmd' = CmdNone
    /\ UNCHANGED <<notTerra, world, heights, terraform_limit, ncmds>>

NextTerraform == CmdTerraformLand \/ CmdReturned

SpecTerraform == InitTerraform /\ [][NextTerraform]_vars

(***************************************************************************)
(* SpecBatch: one call of CmdLevelLand, LevelPasteLand or CopyPasteHeights *)
(* (onto the main map), followed step by step through TerraformTiles.      *)
(* Init draws a world: a plateau to be levelled, a flat map with obstacles *)
(* (map edge, bridge, refusing tile, small budget), a flat map with a      *)
(* sloped clipboard buffer to paste, and a wide map with a wide buffer one *)
(* level above it.                                                         *)
(***************************************************************************)
PlateauLevel == 5
LevelTarget == 3
PlateauCorners == 6
PasteDelta == 2
ContentX == 2
ContentY == 1
WideContent == 255
MoneyBig == 1000
MoneySmall == 3
BudgetPaste == 1000

Terrain(map, level) == [t \in 0 .. (map.size_x * map.size_y - 1) |-> level]

\* Heights rising by one per step along both axes.
SlopedTerrain(map) ==
    [t \in 0 .. (map.size_x * map.size_y - 1) |-> (t % map.size_x) + (t \div map.size_x)]

\* AllocateClipboardBuffer: the buffer is one tile larger than its content.
ClipboardBuffer(content_size_x, content_size_y) ==
    [size_x |-> content_size_x + 1, size_y |-> content_size_y + 1]

WideMap == [size_x |-> 2 * UINT8_RANGE, size_y |-> MapSmall]

BatchWorlds ==
    { [name |-> "plateau", map |-> TerraLargeMap,
       buffer |-> ClipboardBuffer(ContentX, ContentY),
       world |-> [Settings(TRUE, FALSE) EXCEPT !.max_heightlevel = PlateauLevel + PasteDelta],
       heights |-> Terrain(TerraLargeMap, PlateauLevel), limit |-> 0],
      [name |-> "obstacles", map |-> TerraLargeMap,
       buffer |-> ClipboardBuffer(ContentX, ContentY),
       world |-> [Settings(FALSE, TRUE) EXCEPT
                    !.bridges = {[tile |-> 2 * (2 * MapSmall) + 1, height |-> FlatLevel + 1]},
                    !.refuse  = {4 * (2 * MapSmall) + 4}],
       heights |-> Terrain(TerraLargeMap, FlatLevel),
       limit |-> BudgetBig * TERRAFORM_LIMIT_UNIT + BudgetLowBits],
      [name |-> "budget", map |-> TerraLargeMap,
       buffer |-> ClipboardBuffer(ContentX, ContentY),
       world |-> Settings(TRUE, TRUE),
       heights |-> Terrain(TerraLargeMap, FlatLevel),
       limit |-> BudgetSmall * TERRAFORM_LIMIT_UNIT + BudgetLowBits],
      [name |-> "paste", map |-> TerraLargeMap,
       buffer |-> ClipboardBuffer(ContentX, ContentY),
       world |-> [Settings(TRUE, TRUE) EXCEPT !.max_heightlevel = PlateauLevel + PasteDelta],
       heights |-> Terrain(TerraLargeMap, FlatLevel),
       limit |-> BudgetPaste * TERRAFORM_LIMIT_UNIT],
      [name |-> "wide", map |-> WideMap,
       buffer |-> ClipboardBuffer(WideContent, ContentY),
       world |-> Settings(TRUE, FALSE),
       heights |-> Terrain(WideMap, FlatLevel), limit |-> 0] }

InitBatch ==
    /\ asserts = TRUE
    /\ DirIdle /\ AreaIdle /\ OrthIdle /\ DiagIdle
    /\ \E w \in BatchWorlds :
         /\ maps = <<w.map, w.buffer>>
         /\ world = w.world @@ [name |-> w.name,
                                 buffer_heights |-> IF w.name = "wide"
                                                    THEN Terrain(w.buffer, FlatLevel + 1)
                                                    ELSE SlopedTerrain(w.buffer)]
         /\ heights = w.heights
         /\ terraform_limit \in {w.limit} \cup
                (IF w.name = "budget" THEN {BudgetLowBits} ELSE {})
    /\ cmd = CmdNone
    /\ ncmds = 0
    /\ batch = BatchNone
    /\ call = CallNone
    /\ rec = RecNone

\* The tiles CmdLevelLand is called with.
LevelTiles ==
    { IndexOf(TileXY(x, y, MAIN_MAP)) : x \in {1, 2, 4}, y \in {2, 4} }

\* CmdLevelLand(tile, flags, p1, p2) up to the first loop test of TerraformTiles;
\* p2 is given by its fields: bit 0 (diagonal) and bits 1-2 (the LevelMode).
CmdLevelLand ==
    /\ batch = BatchNone
    /\ world.name # "wide"
    /\ \E tile \in LevelTiles, p1 \in LevelTiles, diagonal \in BOOLEAN,
          mode \in {"LM_LEVEL", "LM_RAISE", "LM_LOWER"}, exec \in BOOLEAN :
         LET h == TileHeight(p1) + (CASE mode = "LM_RAISE" -> 1
                                      [] mode = "LM_LOWER" -> -1
                                      [] OTHER -> 0)
             iter == IF diagonal
                     THEN [kind |-> "diagonal",
                           it |-> DiagonalTileIterator(DiagonalTileArea(MainTile(tile), MainTile(p1)))]
                     ELSE [kind |-> "orthogonal",
                           it |-> OrthogonalTileIterator(OrthogonalTileArea(MainTile(tile), MainTile(p1)))]
         IN batch' = TerraformTilesBegin("CmdLevelLand", iter,
                         [kind |-> "level", min_height |-> h, max_height |-> h],
                         exec, MoneyBig)
    /\ UNCHANGED <<notBatch, terraVars>>

\* LevelPasteLand(ta, min_height, max_height) -> TerraformPasteTiles, up to the
\* first loop test of TerraformTiles.  _current_pasting gives the flags and the money.
LevelPasteLand ==
    /\ batch = BatchNone
    /\ world.name # "wide"
    /\ \E base \in {1, 2}, extent \in {2, PlateauCorners}, exec \in BOOLEAN,
          range \in { [lo |-> LevelTarget, hi |-> LevelTarget],
                      [lo |-> 0, hi |-> FlatLevel + 1] },
          money \in {MoneyBig, MoneySmall} :
         LET ta == [tile |-> TileXY(base, base, MAIN_MAP), w |-> extent, h |-> extent]
         IN /\ base + extent <= MapSizeX(MAIN_MAP)
            /\ batch' = TerraformTilesBegin("LevelPasteLand",
                            [kind |-> "orthogonal", it |-> OrthogonalTileIterator(ta)],
                            [kind |-> "level", min_height |-> range.lo, max_height |-> range.hi],
                            exec, money)
    /\ UNCHANGED <<notBatch, terraVars>>

\* GenericTileArea TransformTileArea(ta, dst_tile, transformation)
TransformTileAreaAt(ta, dst_tile, transformation) ==
    LET size == TransformDimension([width |-> ta.w, height |-> ta.h], transformation)
    IN MakeArea(dst_tile, size.width, size.height)

\* The source areas of a paste: the whole content of the buffer, or one tile of it.
PasteSources ==
    { [tile |-> TileXY(0, 0, BUFFER_MAP),
       w |-> MapSizeX(BUFFER_MAP) - 1, h |-> MapSizeY(BUFFER_MAP) - 1],
      [tile |-> TileXY(1, 0, BUFFER_MAP), w |-> 1, h |-> 1] }

\* CopyPasteHeights(src_area, copy_paste) with the destination on the main map
\* -> TerraformPasteTiles, up to the first loop test of TerraformTiles.
CopyPasteHeights ==
    /\ batch = BatchNone
    /\ world.name \in {"paste", "wide"}
    /\ \E src_area \in PasteSources, transformation \in DirTransformations,
          dst \in {1, 2}, height_delta \in {0, PasteDelta}, exec \in BOOLEAN,
          money \in {MoneyBig, MoneySmall} :
         LET dst_area == TransformTileAreaAt(src_area, TileXY(dst, dst, MAIN_MAP),
                                              transformation)
             copy_paste == [src_area |-> src_area, dst_area |-> dst_area,
                            transformation |-> transformation,
                            height_delta |-> height_delta]
             src_corners == MakeArea(src_area.tile, src_area.w + 1, src_area.h + 1)
             to_dst_corner == TransformationBetweenTileAreaCorners(
                                  src_area, dst_area, transformation)
         IN /\ world.name = "wide" => (transformation = DTR_IDENTITY /\ dst = 1)
            /\ batch' = TerraformTilesBegin("CopyPasteHeights",
                            [kind |-> "transformation",
                             it |-> TransformationTileIterator(src_corners, to_dst_corner,
                                                               MAIN_MAP)],
                            [kind |-> "copy", height_delta |-> height_delta],
                            exec, money)
                          @@ [copy_paste |-> copy_paste]
    /\ UNCHANGED <<notBatch, terraVars>>

IterIsValid(it) == IterTile(it) # INVALID_TILE_INDEX

RecordFailure_KeepFirst(b, ret) ==
    [b EXCEPT
        !.result.last_error = IF b.failures = <<>> THEN ret.err ELSE @,
        !.last_err_tile = IF b.failures = <<>> THEN ret.err_tile ELSE @,
        !.terraform_err_tile = ret.err_tile,
        !.limit = IF ret.err = "STR_ERROR_TERRAFORM_LIMIT_REACHED" THEN 0 ELSE @,
        !.failures = Append(@, [err |-> ret.err, err_tile |-> ret.err_tile,
                                t |-> b.t, after |-> b.executed])]

\* `if (ret.Failed())` in the inner loop: the message and the error tile of the
\* failed command replace those kept so far; the failure joins the history.
RecordFailure(b, ret) ==
    [b EXCEPT
        !.result.last_error = ret.err,
        !.last_err_tile = ret.err_tile,
        !.terraform_err_tile = ret.err_tile,
        !.limit = IF ret.err = "STR_ERROR_TERRAFORM_LIMIT_REACHED" THEN 0 ELSE @,
        !.failures = Append(@, [err |-> ret.err, err_tile |-> ret.err_tile,
                                t |-> b.t, after |-> b.executed])]

NotEnoughMoney_BeforeCost(available_money, cost) == available_money < 0

\* `available_money -= ret.GetCost(); if (available_money < 0)`
NotEnoughMoney(available_money, cost) == available_money - cost < 0

OuterLoopTest_IterOnly(b) == IterIsValid(b.iter)

\* `*iter != INVALID_TILE && limit > 0`
OuterLoopTest(b) == IterIsValid(b.iter) /\ b.limit > 0

\* The outer loop test passes: target height and current height of the next tile.
TerraformTilesNextTile ==
    /\ batch # BatchNone /\ batch.pc = "outer"
    /\ OuterLoopTest(batch)
    /\ batch' = [batch EXCEPT !.pc = "inner",
                    !.h = GetTileTargetHeight(batch.height_source, batch.iter),
                    !.t = IterTile(batch.iter),
                    !.curh = TileHeight(IterTile(batch.iter))]
    /\ UNCHANGED <<notBatch, terraVars>>

\* The inner loop test passes: one body of the inner loop, a test run of
\* CmdTerraformLand on corner N of tile t and, with DC_EXEC, the executed run.
TerraformTilesCommand ==
    /\ batch # BatchNone /\ batch.pc = "inner"
    /\ batch.curh # batch.h
    /\ LET p2   == IF batch.curh > batch.h THEN 0 ELSE 1
           step == IF batch.curh > batch.h THEN -1 ELSE 1
       IN \E test \in {DoCommand(batch.t, SLOPE_N, p2, FALSE)} :
            IF ~test.res.ok
            THEN /\ batch' = [RecordFailure(batch, test.res) EXCEPT
                                 !.issued = @ + 1,
                                 !.iter = IterInc(@), !.pc = "outer"]
                 /\ UNCHANGED <<heights, terraform_limit>>
            ELSE IF batch.exec
            THEN IF NotEnoughMoney(batch.available_money, test.res.cost)
                 THEN /\ batch' = CallerTail([batch EXCEPT
                              !.issued = @ + 1,
                              !.available_money = @ - test.res.cost,
                              !.additional_cash_required = test.res.cost,
                              !.terraform_err_tile = batch.t])
                      /\ UNCHANGED <<heights, terraform_limit>>
                 ELSE \E run \in {DoCommand(batch.t, SLOPE_N, p2, TRUE)} :
                      /\ batch' = [batch EXCEPT
                              !.issued = @ + 2,
                              !.available_money = @ - test.res.cost,
                              !.terraform_err_tile = run.res.err_tile,
                              !.result.cost = @ + test.res.cost,
                              !.result.had_success = TRUE,
                              !.executed = @ + 1,
                              !.curh = @ + step]
                      /\ heights' = run.heights
                      /\ terraform_limit' = run.limit
            ELSE /\ batch' = IF batch.limit - 1 <= 0
                             THEN [batch EXCEPT
                                     !.limit = @ - 1,
                                     !.issued = @ + 1,
                                     !.terraform_err_tile = test.res.err_tile,
                                     !.result.had_success = TRUE,
                                     !.iter = IterInc(@), !.pc = "outer"]
                             ELSE [batch EXCEPT
                                     !.limit = @ - 1,
                                     !.issued = @ + 1,
                                     !.terraform_err_tile = test.res.err_tile,
                                     !.result.cost = @ + test.res.cost,
                                     !.result.had_success = TRUE,
                                     !.curh = @ + step]
                 /\ UNCHANGED <<heights, terraform_limit>>
    /\ UNCHANGED <<notBatch, world, cmd, ncmds>>

\* The inner loop test fails (curh == h): ++(*iter).
TerraformTilesAdvance ==
    /\ batch # BatchNone /\ batch.pc = "inner"
    /\ batch.curh = batch.h
    /\ batch' = [batch EXCEPT !.iter = IterInc(@), !.pc = "outer"]
    /\ UNCHANGED <<notBatch, terraVars>>

\* The outer loop test fails: TerraformTiles returns and its caller finishes.
TerraformTilesReturn ==
    /\ batch # BatchNone /\ batch.pc = "outer"
    /\ ~OuterLoopTest(batch)
    /\ batch' = TerraformTilesEnd(batch)
    /\ UNCHANGED <<notBatch, terraVars>>

NextBatch ==
    \/ CmdLevelLand \/ LevelPasteLand \/ CopyPasteHeights
    \/ TerraformTilesNextTile \/ TerraformTilesCommand
    \/ TerraformTilesAdvance \/ TerraformTilesReturn

SpecBatch == InitBatch /\ [][NextBatch]_vars

(***************************************************************************)
(* SpecOps: single calls of the area tests, of Expand, of the base+extent  *)
(* constructor and of TileXY, on a main map and a clipboard buffer of      *)
(* another size, in builds with and without assertions.  Each behaviour    *)
(* is one call on operands drawn from bounded sets.                        *)
(***************************************************************************)
OpsMainLog == 2
OpsBufX == 6
OpsBufY == 3
MaxRad == 2
MaxOpsExtent == 2
CoordMargin == 1

\* A buffer wider than a small main map, and one smaller than a larger main map.
OpsMaps ==
    { <<[size_x |-> 2 ^ OpsMainLog, size_y |-> 2 ^ OpsMainLog],
        [size_x |-> OpsBufX, size_y |-> OpsBufY]>>,
      <<[size_x |-> 2 ^ (OpsMainLog + 1), size_y |-> 2 ^ (OpsMainLog + 1)],
        [size_x |-> OpsBufX - 2, size_y |-> OpsBufY]>> }

InitOps ==
    /\ asserts \in BOOLEAN
    /\ maps \in OpsMaps
    /\ DirIdle /\ AreaIdle /\ OrthIdle /\ DiagIdle /\ TerraIdle

\* The default-constructed area: INVALID_TILE of no map, extents 0.
DefaultArea == [tile |-> MakeTileIndex(INVALID_TILE_INDEX, NULL_MAP), w |-> 0, h |-> 0]

\* Areas of both maps with extents from 0, the same areas after Clear(), and
\* the default-constructed area.
OpsAreas ==
    LET made == UNION { AreasOf(m, 0 .. MaxOpsExtent, 0 .. MaxOpsExtent) :
                          m \in {MAIN_MAP, BUFFER_MAP} }
    IN made \cup { Clear(ta) : ta \in made } \cup {DefaultArea}

\* area.Expand(rad) on an area that lies inside its map
ApplyExpand ==
    /\ call = CallNone
    /\ \E m \in {MAIN_MAP, BUFFER_MAP}, rad \in 0 .. MaxRad :
         \E ta \in AreasOf(m, 1 .. MaxOpsExtent, 1 .. MaxOpsExtent) :
           call' = [op |-> "Expand", this |-> ta, rad |-> rad, ret |-> Expand(ta, rad)]
    /\ UNCHANGED notOps

\* this.Intersects(ta)
ApplyIntersects ==
    /\ call = CallNone
    /\ \E this \in OpsAreas, ta \in OpsAreas :
         \E out \in {Intersects(this, ta)} :
           call' = [op |-> "Intersects", this |-> this, arg |-> ta,
                    ret |-> out.ret, touched |-> out.touched]
    /\ UNCHANGED notOps

\* this.Contains(ta)
ApplyContainsArea ==
    /\ call = CallNone
    /\ \E this \in OpsAreas, ta \in OpsAreas :
         \E out \in {ContainsArea(this, ta)} :
           call' = [op |-> "ContainsArea", this |-> this, arg |-> ta,
                    ret |-> out.ret, touched |-> out.touched]
    /\ UNCHANGED notOps

\* this.Contains(tile)
ApplyContainsTile ==
    /\ call = CallNone
    /\ \E this \in OpsAreas, m \in {MAIN_MAP, BUFFER_MAP} :
         \E tile \in MapTiles(m) :
           \E out \in {ContainsTile(this, tile)} :
             call' = [op |-> "ContainsTile", this |-> this, tile |-> tile,
                      ret |-> out.ret, touched |-> out.touched]
    /\ UNCHANGED notOps

\* The extents an area is constructed with: small ones, those around the
\* range of 8 bits, and the largest of 16 bits.
OpsExtents ==
    (0 .. MaxOpsExtent)
        \cup {UINT8_RANGE - 1, UINT8_RANGE, UINT8_RANGE + 1, UINT16_RANGE - 1}

\* OrthogonalTileAreaT(tile, w, h)
ApplyConstruct ==
    /\ call = CallNone
    /\ \E m \in {MAIN_MAP, BUFFER_MAP}, w \in OpsExtents, h \in OpsExtents :
         \E tile \in {TileXY(0, 0, m), TileXY(1, 1, m)} :
           call' = [op |-> "OrthogonalTileArea", tile |-> tile, w |-> w, h |-> h,
                    ret |-> MakeArea(tile, w, h)]
    /\ UNCHANGED notOps

\* TileXY<Tgeneric>(x, y, map); a negative x or y stands for the unsigned value
\* with the same bits.
ApplyTileXY ==
    /\ call = CallNone
    /\ \E m \in {MAIN_MAP, BUFFER_MAP}, generic \in BOOLEAN :
         \E x \in (-CoordMargin) .. (MapSizeX(m) + CoordMargin),
            y \in (-CoordMargin) .. (MapSizeY(m) + CoordMargin) :
           call' = [op |-> "TileXY", x |-> x, y |-> y, map |-> m, generic |-> generic,
                    ret |-> IF generic THEN TileXY(x, y, m) ELSE TileXYMain(x, y, m)]
    /\ UNCHANGED notOps

(***************************************************************************)
(* clipboard.cpp: EmptyClipboardBuffer and AllocateClipboardBuffer.  The   *)
(* call record keeps the tile array m of the buffer: per tile its type and *)
(* its clear ground, or NULL_TILES when the array is freed.                *)
(***************************************************************************)
AllocSmall == 3

CLEAR_GRASS == 0
CLEAR_END == 6

NULL_TILES == <<>>

\* A tile of CallocT<Tile>: all bits zero, which reads as clear grass.
CallocTile == [type |-> "MP_CLEAR", ground |-> CLEAR_GRASS]

\* Content sizes: small ones, and those around the range of a uint8 extent;
\* 0 is refused by the assertions.
AllocSizes == (0 .. AllocSmall) \cup {UINT8_RANGE - 2, UINT8_RANGE - 1, UINT8_RANGE}

\* At most n passes of `for (...; IsValidTileIndex(iter); ++iter)` from the
\* iterator `it` on: the indices the iterator held, and the iterator after them.
RECURSIVE LoopPasses(_, _)
LoopPasses(it, n) ==
    IF n = 0 \/ ~IsValidTileIndex(it.tile) THEN [tiles |-> {}, it |-> it]
    ELSE IF n = 1
    THEN [tiles |-> {IndexOf(it.tile)}, it |-> OrthogonalTileIterator_Inc(it)]
    ELSE LET first == LoopPasses(it, n \div 2)
             rest  == LoopPasses(first.it, n - n \div 2)
         IN [tiles |-> first.tiles \cup rest.tiles, it |-> rest.it]

\* GENERIC_TILE_AREA_LOOP(iter, ta): the indices `iter` holds; the loop ends
\* within as many passes as the map has tiles, or `ended` is false.
GenericTileAreaLoop(ta) ==
    LET out == LoopPasses(OrthogonalTileIterator(ta), MapSize(MapOf(ta.tile)))
    IN [tiles |-> out.tiles, ended |-> ~IsValidTileIndex(out.it.tile)]

\* The tiles the three loops of AllocateClipboardBuffer visit, with the new
\* size_x and size_y of the buffer in place.
AllocateLoops ==
    LET size_x == MapSizeX(BUFFER_MAP)
        size_y == MapSizeY(BUFFER_MAP)
    IN [ground |-> GenericTileAreaLoop(
                       MakeArea(TileXY(0, 0, BUFFER_MAP), size_x - 1, size_y - 1)),
        column |-> GenericTileAreaLoop(MakeArea(TileXY(size_x - 1, 0, BUFFER_MAP), 1, size_y)),
        row    |-> GenericTileAreaLoop(MakeArea(TileXY(0, size_y - 1, BUFFER_MAP), size_x, 1))]

\* The tile array after the loops: SetClearGroundDensity(iter, CLEAR_END, 0)
\* on the tiles of the first loop, then MakeVoid(iter) on those of the other two.
TilesAfterLoops(size, ground, void) ==
    [i \in 0 .. (size - 1) |->
        IF i \in void THEN [type |-> "MP_VOID", ground |-> CLEAR_GRASS]
        ELSE IF i \in ground THEN [type |-> "MP_CLEAR", ground |-> CLEAR_END]
        ELSE CallocTile]

\* The program is between calls and the buffer has content (buffer->m != NULL).
HasContent ==
    \/ call = CallNone
    \/ call.op = "AllocateClipboardBuffer" /\ call.pc = "returned"

\* EmptyClipboardBuffer(buffer) on a buffer that has content.
EmptyClipboardBuffer ==
    /\ HasContent
    /\ maps' = [maps EXCEPT ![BUFFER_MAP] = [size_x |-> 0, size_y |-> 0]]
    /\ call' = [op |-> "EmptyClipboardBuffer", pc |-> "returned", size |-> 0,
                m |-> NULL_TILES]
    /\ UNCHANGED notOpsMaps

\* AllocateClipboardBuffer(buffer, content_size_x, content_size_y), on a buffer
\* with content or an emptied one, up to the first loop: the assertions,
\* EmptyClipboardBuffer, the three size fields and the zeroed tile array.
AllocateClipboardBuffer ==
    /\ HasContent \/ call.op = "EmptyClipboardBuffer"
    /\ \E content_size_x \in AllocSizes, content_size_y \in AllocSizes :
         /\ content_size_x <= AllocSmall \/ content_size_y <= AllocSmall
         /\ IF asserts /\ (content_size_x < 1 \/ content_size_y < 1)
            THEN /\ call' = [op |-> "AllocateClipboardBuffer", pc |-> "aborted",
                             content_size_x |-> content_size_x,
                             content_size_y |-> content_size_y,
                             size |-> ASSERT_FAILED, m |-> NULL_TILES]
                 /\ UNCHANGED maps
            ELSE /\ maps' = [maps EXCEPT
                               ![BUFFER_MAP] = ClipboardBuffer(content_size_x, content_size_y)]
                 /\ \E size \in {(content_size_x + 1) * (content_size_y + 1)} :
                      call' = [op |-> "AllocateClipboardBuffer", pc |-> "loops",
                               content_size_x |-> content_size_x,
                               content_size_y |-> content_size_y,
                               size |-> size, m |-> [i \in 0 .. (size - 1) |-> CallocTile]]
    /\ UNCHANGED notOpsMaps

\* The three loops of AllocateClipboardBuffer and its return.
AllocateClipboardBufferLoops ==
    /\ call # CallNone /\ call.op = "AllocateClipboardBuffer" /\ call.pc = "loops"
    /\ \E loops \in {AllocateLoops} :
         /\ loops.ground.ended /\ loops.column.ended /\ loops.row.ended
         /\ \E void \in {loops.column.tiles \cup loops.row.tiles} :
              call' = [call EXCEPT !.pc = "returned",
                                   !.m = TilesAfterLoops(call.size, loops.ground.tiles, void)]
    /\ UNCHANGED notOps

NextAlloc ==
    \/ EmptyClipboardBuffer
    \/ AllocateClipboardBuffer
    \/ AllocateClipboardBufferLoops

\* SpecAlloc: a clipboard buffer with content is emptied and allocated again,
\* any number of times.
SpecAlloc == InitOps /\ [][NextAlloc]_vars

NextOps ==
    \/ ApplyExpand
    \/ ApplyIntersects
    \/ ApplyContainsArea
    \/ ApplyContainsTile
    \/ ApplyConstruct
    \/ ApplyTileXY

SpecOps == InitOps /\ [][NextOps]_vars

(***************************************************************************)
(* SpecRecurse: one top-level call TerraformTileHeight(&ts, t,             *)
(* TileHeight(t) + direction) of CmdTerraformLand with an empty            *)
(* TerraformerState, followed call by call: rec.stack holds one frame per  *)
(* active call (the corner, the aimed height, the place in the loop over   *)
(* _terraform_tilepos and the running tile), rec.ts the TerraformerState.  *)
(* Init draws every assignment of the heights of HeightChoices to the      *)
(* corners of a small map, smooth or not.                                  *)
(***************************************************************************)
RecMapSize == 3
RecCliff == 3

RecMap == [size_x |-> RecMapSize, size_y |-> RecMapSize]

HeightChoices == {0, RecCliff}

\* A frame at the entry of TerraformTileHeight(ts, tile, height); gap is the
\* distance of the aimed height from the height the corner has at the call.
NewFrame(ts, tile, height) ==
    [pc |-> "enter", tile |-> tile, height |-> height, k |-> 1, cur |-> tile,
     gap |-> Abs(height - TerraformGetHeightOfTile(ts, tile))]

InitRecurse ==
    /\ asserts = TRUE
    /\ maps = <<RecMap, [size_x |-> BufSmallX, size_y |-> BufSmallY]>>
    /\ DirIdle /\ AreaIdle /\ OrthIdle /\ DiagIdle
    /\ world \in { [Settings(freeform, FALSE) EXCEPT !.max_heightlevel = RecCliff + 1] :
                     freeform \in {TRUE} }
    /\ heights \in [0 .. (RecMapSize * RecMapSize - 1) -> HeightChoices]
    /\ terraform_limit = 0 /\ cmd = CmdNone /\ ncmds = 0
    /\ batch = BatchNone /\ call = CallNone
    /\ \E t \in 0 .. (RecMapSize * RecMapSize - 1), direction \in {-1, 1} :
         rec = [status |-> "running", ts |-> EmptyTerraformerState, depth |-> 1,
                tile |-> t, height |-> heights[t] + direction,
                stack |-> <<NewFrame(EmptyTerraformerState, t, heights[t] + direction)>>]

RecTop == rec.stack[Len(rec.stack)]

RecSetTop(frame) == [rec.stack EXCEPT ![Len(rec.stack)] = frame]

\* TerraformTileHeight from its entry to the loop over the neighbours: the
\* range checks, the "no effect" check, the map edge check, and the store.
RecEnter ==
    /\ rec.status = "running" /\ RecTop.pc = "enter"
    /\ LET f == RecTop
           x == TileX(MainTile(f.tile))
           y == TileY(MainTile(f.tile))
       IN IF \/ f.height < 0 \/ f.height > world.max_heightlevel
             \/ f.height = TerraformGetHeightOfTile(rec.ts, f.tile)
             \/ (/\ ~world.freeform_edges
                 /\ (x <= 1 \/ y <= 1 \/ x >= MapMaxX(MAIN_MAP) - 1
                        \/ y >= MapMaxY(MAIN_MAP) - 1))
          THEN rec' = [rec EXCEPT !.stack = RecSetTop([f EXCEPT !.pc = "failed"])]
          ELSE rec' = [rec EXCEPT
                         !.ts = TerraformSetHeightOfTile(
                                    TerraformAddDirtyTileAround(rec.ts, f.tile),
                                    f.tile, f.height),
                         !.stack = RecSetTop([f EXCEPT !.pc = "loop"])]
    /\ UNCHANGED <<notRec, terraVars>>

\* One pass of the loop over _terraform_tilepos: move to the next neighbour,
\* skip it, leave it, or call TerraformTileHeight for it.
RecNeighbour ==
    /\ rec.status = "running" /\ RecTop.pc = "loop" /\ RecTop.k <= Len(TerraformTilepos)
    /\ LET f == RecTop
           t == f.cur + TileDiffXY(TerraformTilepos[f.k].x, TerraformTilepos[f.k].y, MAIN_MAP)
           skip == \/ ~ULess(t, MapSize(MAIN_MAP))
                   \/ Delta(TileX(MainTile(f.tile)), TileX(MainTile(t))) = MapSizeX(MAIN_MAP) - 1
                   \/ Delta(TileY(MainTile(f.tile)), TileY(MainTile(t))) = MapSizeY(MAIN_MAP) - 1
           r == TerraformGetHeightOfTile(rec.ts, t)
           height_diff == f.height - r
       IN IF ~skip /\ HeightDiffTooLarge(height_diff)
          THEN rec' = [rec EXCEPT
                         !.stack = Append(RecSetTop([f EXCEPT !.pc = "call", !.cur = t]),
                                          NewFrame(rec.ts, t,
                                              TerraformNeighbourHeight(r, height_diff))),
                         !.depth = Max(rec.depth, Len(rec.stack) + 1)]
          ELSE rec' = [rec EXCEPT
                         !.stack = RecSetTop([f EXCEPT !.k = f.k + 1, !.cur = t])]
    /\ UNCHANGED <<notRec, terraVars>>

\* The loop is over: return total_cost.
RecLoopEnd ==
    /\ rec.status = "running" /\ RecTop.pc = "loop" /\ RecTop.k > Len(TerraformTilepos)
    /\ rec' = [rec EXCEPT !.stack = RecSetTop([RecTop EXCEPT !.pc = "done"])]
    /\ UNCHANGED <<notRec, terraVars>>

\* A call returns: to the loop of its caller (`if (cost.Failed()) return cost`),
\* or to CmdTerraformLand.
RecReturn ==
    /\ rec.status = "running" /\ RecTop.pc \in {"done", "failed"}
    /\ LET n == Len(rec.stack)
           failed == RecTop.pc = "failed"
       IN IF n = 1
          THEN rec' = [rec EXCEPT !.status = IF failed THEN "failed" ELSE "succeeded",
                                  !.stack = <<>>]
          ELSE LET caller == rec.stack[n - 1]
               IN rec' = [rec EXCEPT !.stack =
                            Append(SubSeq(rec.stack, 1, n - 2),
                                   IF failed THEN [caller EXCEPT !.pc = "failed"]
                                   ELSE [caller EXCEPT !.pc = "loop", !.k = caller.k + 1])]
    /\ UNCHANGED <<notRec, terraVars>>

NextRecurse == RecEnter \/ RecNeighbour \/ RecLoopEnd \/ RecReturn

SpecRecurse == InitRecurse /\ [][NextRecurse]_vars

\* The program runs on while a call is active.
FairRecurse == SpecRecurse /\ WF_vars(NextRecurse)

\* The corners whose height the last command changed: those of a successful
\* command run with DC_EXEC.
AffectedCorners ==
    IF cmd # CmdNone /\ cmd.ok /\ cmd.exec THEN cmd.changed ELSE {}

CornerDX(c1, c2) == Abs(TileX(MainTile(c1)) - TileX(MainTile(c2)))

CornerDY(c1, c2) == Abs(TileY(MainTile(c1)) - TileY(MainTile(c2)))

(***************************************************************************)
(* C1: with T = TransformationBetweenTileAreas(R, D, dtr), the tiles a     *)
(* TransformationTileIterator over R has held when it is exhausted are     *)
(* exactly the tiles of TransformTileArea(R, T, map of D), each held once. *)
(***************************************************************************)
C1_IterationIsTransformedArea ==
    IterDone =>
        /\ seen = AreaTiles(TransformTileArea(srcArea, AreaTransformation, MapOf(dstArea.tile)))
        /\ nseen = Cardinality(seen)

\* The same statement for areas whose extents fit the 8-bit constructor parameters.
C1_IterationIsTransformedAreaBelow256 ==
    (IterDone /\ srcArea.w < UINT8_RANGE /\ srcArea.h < UINT8_RANGE) =>
        /\ seen = AreaTiles(TransformTileArea(srcArea, AreaTransformation, MapOf(dstArea.tile)))
        /\ nseen = Cardinality(seen)

(***************************************************************************)
(* C2: a tile t of A sent through TransformationBetweenTileAreas(A, B, dtr)*)
(* and then through TransformationBetweenTileAreas(B, A,                   *)
(* InvertDirTransform(dtr)) comes back as t.                               *)
(***************************************************************************)
C2_RoundTrip ==
    rt.op = "roundtrip" => rt.back = rt.t

\* A tile off the base of a 3x2 area turned by 90 degrees between two maps.
C2_Witness ==
    /\ rt.op = "roundtrip"
    /\ dtr = DTR_ROTATE_90_R
    /\ srcArea.w = 3 /\ srcArea.h = 2
    /\ MapOf(srcArea.tile) # MapOf(dstArea.tile)
    /\ rt.t # srcArea.tile
    /\ rt.mid \in AreaTiles(dstArea)
    /\ rt.back = rt.t

(***************************************************************************)
(* C3: for each of the 8 DirTransformation values T,                       *)
(* CombineDirTransform(T, InvertDirTransform(T)) and                       *)
(* CombineDirTransform(InvertDirTransform(T), T) are both DTR_IDENTITY.    *)
(***************************************************************************)
C3_InverseIsTwoSided ==
    alg.op = "invert" => alg.left = DTR_IDENTITY /\ alg.right = DTR_IDENTITY

\* The case of a rotation that is not its own inverse.
C3_Witness ==
    alg.op = "invert" /\ dtrA = DTR_ROTATE_90_R /\ alg.inv = DTR_ROTATE_90_L

(***************************************************************************)
(* C4: CombineDirTransform is associative:                                 *)
(* Combine(Combine(T1, T2), T3) = Combine(T1, Combine(T2, T3)).            *)
(***************************************************************************)
C4_CombineAssociative ==
    alg.op = "combine3" => alg.lhs = alg.rhs

\* A triple mixing a reflection with rotations, where the order matters.
C4_Witness ==
    /\ alg.op = "combine3"
    /\ dtrA = DTR_ROTATE_90_R /\ dtrB = DTR_REFLECT_NE_SW /\ dtrC = DTR_ROTATE_90_R
    /\ alg.lhs = DTR_REFLECT_NE_SW

(***************************************************************************)
(* C5: CombineDirTransform(a, b) works like applying a and then b:         *)
(* for every Direction, DiagDirection and Axis, transforming by a and then *)
(* by b gives the result of transforming once by CombineDirTransform(a, b).*)
(***************************************************************************)
C5_CombineIsSequence ==
    alg.op = "seq" =>
        /\ alg.dirSeq = alg.dirOnce
        /\ alg.diagSeq = alg.diagOnce
        /\ alg.axisSeq = alg.axisOnce

\* The same statement for the values returned when no assert() stops the call.
C5_CombineIsSequenceReturned ==
    (alg.op = "seq" /\ ~asserts) =>
        /\ alg.dirSeq = alg.dirOnce
        /\ alg.diagSeq = alg.diagOnce
        /\ alg.axisSeq = alg.axisOnce

C5_Witness ==
    /\ alg.op = "seq" /\ ~asserts
    /\ dtrA = DTR_REFLECT_NE_SW /\ dtrB = DTR_ROTATE_90_R
    /\ alg.d = 3 /\ alg.dirOnce = 1

(***************************************************************************)
(* C6: starting from an empty area (default-constructed or cleared), after *)
(* one or more Add calls with valid tiles of one map the area is the       *)
(* minimal bounding box of the added tiles (base = (min x, min y),         *)
(* w = max x - min x + 1, h = max y - min y + 1) and contains each of them.*)
(***************************************************************************)
C6_AddIsBoundingBox ==
    added # {} =>
        LET xs == { TileX(t) : t \in added }
            ys == { TileY(t) : t \in added }
            m  == MapOf(CHOOSE t \in added : TRUE)
        IN /\ area.tile = TileXY(MinOf(xs), MinOf(ys), m)
           /\ area.w = MaxOf(xs) - MinOf(xs) + 1
           /\ area.h = MaxOf(ys) - MinOf(ys) + 1
           /\ \A t \in added : Contains(area, t)

\* Three tiles added after a Clear, the last one lowering the base in x and y.
C6_Witness ==
    /\ Cardinality(added) = 3 /\ nadds = 3
    /\ MapOf(area.tile) = BUFFER_MAP
    /\ area.tile = TileXY(0, 0, BUFFER_MAP) /\ area.w = 3 /\ area.h = 3
    /\ TileXY(0, 0, BUFFER_MAP) \notin added
    /\ TileXY(2, 2, BUFFER_MAP) \in added

(***************************************************************************)
(* C7: every tile a DiagonalTileIterator over a diagonal area D holds      *)
(* while valid, from construction on, has its coordinates inside the map   *)
(* and satisfies D.Contains(tile).                                         *)
(***************************************************************************)
C7_DiagonalIteratorInsideArea ==
    (diter # NoArea /\ IndexOf(diter.tile) # INVALID_TILE_INDEX) =>
        /\ IsValidTileIndex(diter.tile)
        /\ TileX(diter.tile) < MapSizeX(MapOf(diter.tile))
        /\ TileY(diter.tile) < MapSizeY(MapOf(diter.tile))
        /\ DiagonalContains(darea, diter.tile)

\* A tile away from the start, in an area stretching to negative a and b.
C7_Witness ==
    /\ diter # NoArea /\ IsValidTileIndex(diter.tile)
    /\ darea.a < -2 /\ darea.b < -2
    /\ diter.tile # darea.tile
    /\ diter.b_cur < -1
    /\ DiagonalContains(darea, diter.tile)

(***************************************************************************)
(* C8: an OrthogonalTileIterator over an area inside its map holds the     *)
(* tiles (bx + i, by + j) in row-major order (j outer, i inner), w * h of  *)
(* them, each once, and then becomes the invalid sentinel; with w = 0 or   *)
(* h = 0 it is invalid from construction and holds no tile.                *)
(***************************************************************************)
C8_RowMajor ==
    oiter # NoArea =>
        /\ \A k \in 1 .. Len(yielded) : yielded[k] = RowMajorTile(area, k)
        /\ Len(yielded) <= area.w * area.h
        /\ IndexOf(oiter.tile) # INVALID_TILE_INDEX =>
               Len(yielded) > 0 /\ oiter.tile = yielded[Len(yielded)]
        /\ IndexOf(oiter.tile) = INVALID_TILE_INDEX => Len(yielded) = area.w * area.h
        /\ (area.w = 0 \/ area.h = 0) =>
               IndexOf(oiter.tile) = INVALID_TILE_INDEX /\ yielded = <<>>

\* A 2x3 area off the map's origin, iterated to exhaustion.
C8_Witness ==
    /\ oiter # NoArea
    /\ area.w = 2 /\ area.h = 3 /\ TileX(area.tile) = 1 /\ TileY(area.tile) = 1
    /\ MapOf(area.tile) = MAIN_MAP
    /\ IndexOf(oiter.tile) = INVALID_TILE_INDEX
    /\ Len(yielded) = 6
    /\ yielded[3] = TileXY(1, 2, MAIN_MAP)

(***************************************************************************)
(* C9: after construction and after every ++ the tile of a                 *)
(* TransformationTileIterator is the invalid sentinel exactly when its     *)
(* source iterator is invalid, and otherwise it is                         *)
(* TransformTile(SrcTile(), transformation) on the destination map.        *)
(***************************************************************************)
C9_DstTileFollowsSrcTile ==
    titer # NoArea =>
        /\ (IndexOf(DstTile(titer)) = INVALID_TILE_INDEX)
               <=> (IndexOf(SrcTile(titer)) = INVALID_TILE_INDEX)
        /\ IndexOf(SrcTile(titer)) # INVALID_TILE_INDEX =>
               DstTile(titer) = TransformTile(SrcTile(titer), titer.transformation,
                                              MapOf(dstArea.tile))

\* The iterator after a ++ that moved it to the second row of the source area.
C9_Witness ==
    /\ titer # NoArea
    /\ srcArea.w = 2 /\ srcArea.h = 2 /\ dtr = DTR_REFLECT_W_E
    /\ nseen = 3
    /\ titer.src_iter.y = 1 /\ titer.src_iter.x = 2
    /\ DstTile(titer) \in AreaTiles(dstArea)

FailedBeforePass1(c) ==
    c # CmdNone /\ ~c.ok /\ c.err # "STR_ERROR_TERRAFORM_LIMIT_REACHED"

(***************************************************************************)
(* C11: a CmdTerraformLand that fails in the collect phase or in pass 0    *)
(* of the validation returns before any hook runs with DC_EXEC and before  *)
(* the apply step: the stored heights and the budget are what they were,   *)
(* also when DC_EXEC is set.                                               *)
(***************************************************************************)
C11_EarlyFailureChangesNothing ==
    [][(cmd = CmdNone /\ FailedBeforePass1(cmd')) =>
          (heights' = heights /\ terraform_limit' = terraform_limit /\ cmd'.hooked = {})]_vars

\* An executed command that had already collected new heights for several
\* corners when pass 0 found the bridge in its way.
C11_Witness ==
    /\ FailedBeforePass1(cmd) /\ cmd.exec
    /\ cmd.err = "STR_ERROR_MUST_DEMOLISH_BRIDGE_FIRST"
    /\ Cardinality(cmd.changed) >= 1
    /\ \E t \in cmd.changed : heights[t] = FlatLevel

\* A paste onto the main map that ran with DC_EXEC to its end with no failing
\* command and no shortage of money.
PasteSucceeded ==
    /\ batch # BatchNone /\ batch.op = "CopyPasteHeights" /\ batch.pc = "done"
    /\ batch.exec /\ batch.failures = <<>> /\ batch.additional_cash_required = 0

\* The corners of a tile area: one more than its tiles along each axis.
CornersOf(ta) ==
    { TileXY(TileX(ta.tile) + i, TileY(ta.tile) + j, MapOf(ta.tile)) :
        i \in 0 .. ta.w, j \in 0 .. ta.h }

\* Every corner of the source area has its height, plus height_delta, at its
\* transformed corner of the main map, and these are the corners of dst_area.
PastedHeightsMatch ==
    LET cp == batch.copy_paste
        to_dst_corner == TransformationBetweenTileAreaCorners(
                             cp.src_area, cp.dst_area, cp.transformation)
    IN /\ \A c \in CornersOf(cp.src_area) :
            heights[IndexOf(TransformTile(c, to_dst_corner, MAIN_MAP))]
                = GenericTileHeight(c) + cp.height_delta
       /\ { TransformTile(c, to_dst_corner, MAIN_MAP) : c \in CornersOf(cp.src_area) }
              = CornersOf(cp.dst_area)

(***************************************************************************)
(* C12: when CopyPasteHeights has pasted a w x h tile source area onto the *)
(* main map with DC_EXEC and every terraform step succeeded, each of the   *)
(* (w+1) x (h+1) destination corners has the height of its transformed     *)
(* source corner plus height_delta.                                        *)
(***************************************************************************)
C12_PastedHeights ==
    PasteSucceeded => PastedHeightsMatch

\* The same for source areas whose corner extents w+1 and h+1 fit in 8 bits.
C12_PastedHeightsBelow255 ==
    (/\ PasteSucceeded
     /\ batch.copy_paste.src_area.w + 1 < UINT8_RANGE
     /\ batch.copy_paste.src_area.h + 1 < UINT8_RANGE) => PastedHeightsMatch

\* A paste reflected across the north-south axis with a height delta of +2
\* that raised six corners.
C12_WitnessReflected ==
    /\ PasteSucceeded
    /\ batch.copy_paste.transformation = DTR_REFLECT_N_S
    /\ batch.copy_paste.height_delta = PasteDelta
    /\ batch.copy_paste.src_area.w = ContentX
    /\ batch.executed >= 6

\* LevelPasteLand with DC_EXEC over the block of PlateauCorners x PlateauCorners
\* corners of the plateau, to the level LevelTarget, with no failing command
\* and no shortage of money so far.
LevellingPlateau(b) ==
    /\ b # BatchNone /\ b.op = "LevelPasteLand" /\ world.name = "plateau" /\ b.exec
    /\ b.height_source.min_height = LevelTarget /\ b.height_source.max_height = LevelTarget
    /\ b.iter.it.w = PlateauCorners
    /\ b.failures = <<>> /\ b.additional_cash_required = 0

PlateauBlock ==
    { IndexOf(TileXY(TileX(MainTile(batch.start_tile)) + i,
                     TileY(MainTile(batch.start_tile)) + j, MAIN_MAP)) :
        i \in 0 .. (PlateauCorners - 1), j \in 0 .. (PlateauCorners - 1) }

(***************************************************************************)
(* C13: levelling a block of 6 x 6 corners that all start at height 5 to   *)
(* min = max = 3 with DC_EXEC, no failure, enough budget and money: every  *)
(* command issued moves the addressed corner by exactly 1, at most 2 x 36  *)
(* commands are executed, and all 36 corners end at height 3.              *)
(***************************************************************************)
C13_LevelPlateau ==
    /\ [][(LevellingPlateau(batch) /\ LevellingPlateau(batch')
             /\ batch'.executed # batch.executed)
          => (/\ batch'.executed = batch.executed + 1
              /\ Abs(heights'[batch.t] - heights[batch.t]) = 1)]_vars
    /\ [](LevellingPlateau(batch) =>
             /\ batch.executed <= (PlateauLevel - LevelTarget) * PlateauCorners * PlateauCorners
             /\ (batch.pc = "done" => \A c \in PlateauBlock : heights[c] = LevelTarget))

\* The levelling has ended; some corners took two commands, others were pulled
\* one level down by a neighbour and took one.
C13_Witness ==
    /\ LevellingPlateau(batch) /\ batch.pc = "done"
    /\ batch.executed > PlateauCorners * PlateauCorners
    /\ batch.executed < (PlateauLevel - LevelTarget) * PlateauCorners * PlateauCorners
    /\ \A c \in PlateauBlock : heights[c] = LevelTarget

\* The batch ran with DC_EXEC and a command failed after at least one command
\* had been executed.
FailedAfterSuccess(b) ==
    /\ b # BatchNone /\ b.exec
    /\ \E k \in 1 .. Len(b.failures) : b.failures[k].after >= 1

LastFailure(b) == b.failures[Len(b.failures)]

(***************************************************************************)
(* C14: in execute mode, when a command of a TerraformTiles batch fails    *)
(* after earlier commands were executed, the heights already applied stay  *)
(* applied (a failing command and the return change no height), the       *)
(* result has had_success = true and last_error set to the failure, and    *)
(* CmdLevelLand returns success with the accumulated cost.                 *)
(***************************************************************************)
C14_PartialSuccess ==
    /\ [][(FailedAfterSuccess(batch') /\ batch'.executed = batch.executed)
             => heights' = heights]_vars
    /\ [](FailedAfterSuccess(batch) =>
             /\ batch.result.had_success
             /\ batch.result.last_error = LastFailure(batch).err
             /\ batch.result.last_error # STR_NULL
             /\ batch.result.cost > 0
             /\ ((batch.pc = "done" /\ batch.op = "CmdLevelLand") =>
                    (batch.ret.ok /\ batch.ret.cost = batch.result.cost)))

\* CmdLevelLand has returned: it raised some corners, then a command failed
\* at the tile whose hook refuses.
C14_Witness ==
    /\ FailedAfterSuccess(batch) /\ batch.pc = "done" /\ batch.op = "CmdLevelLand"
    /\ Len(batch.failures) = 1
    /\ LastFailure(batch).err = "terraform_tile_proc failed"
    /\ batch.ret.ok /\ batch.ret.cost >= 2
    /\ \E c \in DOMAIN heights : heights[c] = FlatLevel + 1

\* TerraformTiles has returned through its last line with failures on record.
ReturnedWithFailures(b) ==
    /\ b # BatchNone /\ b.pc = "done" /\ b.failures # <<>>
    /\ b.additional_cash_required = 0

InGrid(x, y, m) == 0 <= x /\ x < MapSizeX(m) /\ 0 <= y /\ y < MapSizeY(m)

\* The area the contract of Expand describes, W and H being the sizes of the
\* map that owns the area.
ExpandedInOwnGrid(ta, rad) ==
    LET m  == MapOf(ta.tile)
        x  == TileX(ta.tile)
        y  == TileY(ta.tile)
        sx == Max(x - rad, 0)
        sy == Max(y - rad, 0)
    IN [tile |-> MakeTileIndex(sy * MapSizeX(m) + sx, m),
        w |-> Min(x + ta.w + rad, MapSizeX(m)) - sx,
        h |-> Min(y + ta.h + rad, MapSizeY(m)) - sy]

\* C17: Expand(rad) with rad >= 0 on a non-empty area turns it into
\* [max(x-rad,0), min(x+w+rad,W)) x [max(y-rad,0), min(y+h+rad,H)), W and H
\* being the sizes of the map that owns the area, a clipboard buffer included,
\* so the expanded area does not extend past its own map.
C17_ExpandClampsToOwnGrid ==
    call.op = "Expand" =>
        /\ call.ret = ExpandedInOwnGrid(call.this, call.rad)
        /\ TileX(call.ret.tile) + call.ret.w <= MapSizeX(MapOf(call.this.tile))
        /\ TileY(call.ret.tile) + call.ret.h <= MapSizeY(MapOf(call.this.tile))

\* Expand of an area of the main map is the area of the contract.
C17_ExpandOnMainMap ==
    (call.op = "Expand" /\ MapOf(call.this.tile) = MAIN_MAP) =>
        call.ret = ExpandedInOwnGrid(call.this, call.rad)

\* C18: Intersects(area), Contains(area) and Contains(tile) return false
\* whenever this area or the argument area is empty (zero width), and then
\* return before a coordinate is read and before an assertion is evaluated.
C18_EmptyAreaTests ==
    /\ (call.op \in {"Intersects", "ContainsArea"} /\ (call.this.w = 0 \/ call.arg.w = 0))
           => (~call.touched /\ call.ret = FALSE)
    /\ (call.op = "ContainsTile" /\ call.this.w = 0)
           => (~call.touched /\ call.ret = FALSE)

\* Intersects with the default-constructed area as argument, in a build with
\* assertions: a call whose later lines would fail (no map to read from).
C18_Witness ==
    /\ asserts
    /\ call.op = "Intersects"
    /\ call.this.w # 0 /\ call.this.h # 0
    /\ call.arg = DefaultArea
    /\ ~call.touched /\ call.ret = FALSE

\* C19: constructing an area from base and extent with w and h anywhere in
\* 0..65535 yields an area whose w and h are the given values.
C19_ExtentsPreserved ==
    (call.op = "OrthogonalTileArea" /\ call.w < UINT16_RANGE /\ call.h < UINT16_RANGE)
        => (call.ret.w = call.w /\ call.ret.h = call.h)

\* Extents below 256 are preserved.
C19_ExtentsBelow256Preserved ==
    (call.op = "OrthogonalTileArea" /\ call.w < UINT8_RANGE /\ call.h < UINT8_RANGE)
        => (call.ret.w = call.w /\ call.ret.h = call.h)

\* C20: TileXY(x, y, map) asserts 0 <= x < width and 0 <= y < height of the map
\* before it builds the index y*width + x, so a coordinate out of range does
\* not become the address of another tile of the map.
C20_TileXYAssertsRange ==
    (asserts /\ call.op = "TileXY")
        => IF InGrid(call.x, call.y, call.map)
           THEN call.ret = MakeTileIndex(call.y * MapSizeX(call.map) + call.x, call.map)
           ELSE IndexOf(call.ret) = ASSERT_FAILED

\* TileXY of coordinates inside the map, the main map for the non-generic
\* variant, is the tile with these coordinates.
C20_TileXYInRange ==
    (call.op = "TileXY" /\ InGrid(call.x, call.y, call.map)
        /\ (call.generic \/ call.map = MAIN_MAP))
        => (/\ call.ret = MakeTileIndex(call.y * MapSizeX(call.map) + call.x, call.map)
            /\ TileX(call.ret) = call.x /\ TileY(call.ret) = call.y)


\* C21: for every 4-bit RoadBits mask r and every DirTransformation t,
\* TransformRoadBits(r, t) is the union, over the directions d whose bit is set
\* in r, of DiagDirToRoadBits(TransformDiagDir(d, t)).
C21_RoadBitsFollowDirections ==
    alg.op = "roadbits" => alg.ret = alg.byDir

\* The same where no call is aborted: in a build without assertions every
\* road bit moves with its direction, for all 16 masks and 8 transformations.
C21_RoadBitsFollowDirectionsReturned ==
    (alg.op = "roadbits" /\ alg.byDir # ASSERT_FAILED) => alg.ret = alg.byDir

C21_ReturnedReachedReflecting ==
    /\ alg.op = "roadbits" /\ ~asserts /\ dtrA = DTR_REFLECT_W_E
    /\ alg.r = 6 /\ alg.ret = alg.byDir /\ alg.ret # alg.r

\* C30: for every valid Direction d, DiagDirection dd and DirTransformation t,
\* TransformDir and TransformDiagDir hand a valid direction to ChangeDir and
\* ChangeDiagDir, and return a valid direction.
C30_TransformArgumentsValid ==
    alg.op = "transform" =>
        /\ IsValidDirection(alg.dirArg) /\ IsValidDirection(alg.dir)
        /\ IsValidDiagDirection(alg.diagArg) /\ IsValidDiagDirection(alg.diag)

\* Without a reflection the argument is the given direction and the result is
\* valid; in a build without assertions the result is valid for every input.
C30_ResultValidWhenNotAborted ==
    (alg.op = "transform" /\ (~asserts \/ BitAnd(dtrA, DTR_REFLECTION_BIT) = 0)) =>
        IsValidDirection(alg.dir) /\ IsValidDiagDirection(alg.diag)


\* The tile at offset (dx, dy) from the base tile of an area.
TileAtOffset(ta, dx, dy) == TileXY(TileX(ta.tile) + dx, TileY(ta.tile) + dy, MapOf(ta.tile))

\* A 4 x 3 source area with base (0,0), rotated 90 degrees to the right.
Rotated4x3 ==
    /\ srcArea.w = 4 /\ srcArea.h = 3
    /\ TileX(srcArea.tile) = 0 /\ TileY(srcArea.tile) = 0
    /\ dtr = DTR_ROTATE_90_R

\* C22: for a 4 x 3 source area A with base (0,0) and dtr = rotate 90 degrees
\* right, the destination area B is 3 x 4; the transformation between the areas
\* sends tile (0,0) of A to the corner tile of B that
\* TransformedNorthCornerDiffC(dtr) = (0, 1) selects, at offset (0, 3) from B's
\* base, and tile (3,2) of A to the opposite corner tile, at offset (2, 0).
C22_RotatedAreaCorners ==
    Rotated4x3 =>
        /\ dstArea.w = 3 /\ dstArea.h = 4
        /\ TransformedNorthCornerDiffC(dtr) = [x |-> 0, y |-> 1]
        /\ (rt.op = "roundtrip" /\ rt.t = TileAtOffset(srcArea, 0, 0))
               => rt.mid = TileAtOffset(dstArea, 0, 3)
        /\ (rt.op = "roundtrip" /\ rt.t = TileAtOffset(srcArea, 3, 2))
               => rt.mid = TileAtOffset(dstArea, 2, 0)

\* Tile (3,2) of A, on the clipboard buffer, has been sent to the main map.
C22_Witness ==
    /\ Rotated4x3
    /\ MapOf(srcArea.tile) = BUFFER_MAP /\ MapOf(dstArea.tile) = MAIN_MAP
    /\ rt.op = "roundtrip" /\ rt.t = TileAtOffset(srcArea, 3, 2)
    /\ rt.mid = TileAtOffset(dstArea, 2, 0)

\* Tile (0,0) of A has been sent to the east corner tile of B.
C22_WitnessNorth ==
    /\ Rotated4x3
    /\ rt.op = "roundtrip" /\ rt.t = TileAtOffset(srcArea, 0, 0)
    /\ rt.mid = TileAtOffset(dstArea, 0, 3)


\* C23: on a map at least 3 tiles wide and high on which every two corners
\* adjacent along a grid axis differ in height by at most 1, the same holds
\* for every such pair of the whole map after any sequence of CmdTerraformLand
\* calls (test or execute, successful or failed, any corner mask and
\* direction), pairs of a changed and an unchanged corner and pairs at the
\* map edge included.
C23_HeightsStaySmooth ==
    (cmd # CmdNone \/ ncmds > 0) => HeightsSmooth(heights)

\* An executed command has raised the top of the hill and, by propagation, its
\* neighbours down to the map edge; the heights are stored and smooth.
C23_Witness ==
    /\ cmd # CmdNone /\ cmd.ok /\ cmd.exec /\ cmd.smooth_before
    /\ Cardinality(cmd.changed) >= 5
    /\ \E t \in cmd.changed : TileX(MainTile(t)) = 0
    /\ \E t \in cmd.changed, u \in DOMAIN heights \ cmd.changed :
         Delta(t, u) = 1 /\ TileY(MainTile(t)) = TileY(MainTile(u))
    /\ \E t \in cmd.changed : heights[t] = HillTop + 1
    /\ HeightsSmooth(heights)


RecFinished == rec.status \in {"succeeded", "failed"}

\* The frames of the nested calls, each with its caller.
NestedCalls == { i \in 1 .. Len(rec.stack) : i > 1 }

\* C24: the recursive corner propagation of TerraformTileHeight terminates for
\* every finite map and every initial assignment of heights within
\* 0..max_heightlevel, smooth or not: every chain of nested recursive calls is
\* finite because each recursive call is made with a strictly smaller
\* remaining height gap than its caller.
C24_GapsShrinkAndTerminates ==
    /\ [](rec.status = "running" =>
            \A i \in NestedCalls : rec.stack[i].gap < rec.stack[i - 1].gap)
    /\ <>RecFinished

\* C24, amended: the propagation terminates; a recursive call is made for a
\* neighbour more than 1 away from the height its caller aims at, aims at
\* distance 1 from that height, and its own gap is at least 1 (it may equal or
\* exceed the gap of its caller).
C24_RecursionTerminates ==
    /\ [](rec.status = "running" =>
            \A i \in NestedCalls :
                /\ Abs(rec.stack[i].height - rec.stack[i - 1].height) = 1
                /\ rec.stack[i].gap >= 1
                /\ rec.stack[i - 1].pc = "call"
                /\ rec.stack[i].tile = rec.stack[i - 1].cur)
    /\ <>RecFinished

\* The top-level call has returned successfully after a chain of four nested
\* calls or more, one of them with a larger gap than its caller had.
C24_Witness ==
    /\ rec.status = "succeeded" /\ rec.depth >= 4
    /\ Cardinality(DOMAIN rec.ts.tile_to_new_height) >= 4
    /\ \E t \in DOMAIN rec.ts.tile_to_new_height :
         Abs(rec.ts.tile_to_new_height[t] - heights[t]) > 1

\* The calls followed one by one return what the recursive definition returns.
C24_SameAsTerraformTileHeight ==
    RecFinished =>
        LET cost == TerraformTileHeight(EmptyTerraformerState, INVALID_TILE_INDEX,
                                        rec.tile, rec.height)
        IN /\ cost.ok = (rec.status = "succeeded")
           /\ cost.ok => cost.ts = rec.ts


\* The budget of the TerraformTiles call in progress is exhausted.
BudgetExhausted(b) == b # BatchNone /\ b.pc # "done" /\ b.limit <= 0

\* C25: in TerraformTiles, once the budget is exhausted (the local countdown
\* reaches 0 in estimate mode, a step fails with
\* STR_ERROR_TERRAFORM_LIMIT_REACHED in either mode, or the owner's budget in
\* whole corners is 0 at the start), no further terraform command is issued
\* for the current tile or for any later tile of the iterator.
C25_NoCommandAfterBudgetExhausted ==
    [][BudgetExhausted(batch) =>
          /\ batch'.issued = batch.issued
          /\ heights' = heights /\ terraform_limit' = terraform_limit]_vars

\* The countdown has reached 0 in estimate mode with tiles left to visit, and
\* the call has returned.
C25_Witness ==
    /\ batch # BatchNone /\ batch.pc = "done" /\ ~batch.exec
    /\ batch.limit = 0 /\ batch.failures = <<>> /\ batch.issued = BudgetSmall
    /\ IterIsValid(batch.iter)

\* A step failed with STR_ERROR_TERRAFORM_LIMIT_REACHED with DC_EXEC, after
\* executed steps had used the owner's budget up.
C25_WitnessLimitReached ==
    /\ batch # BatchNone /\ batch.pc = "done" /\ batch.exec
    /\ batch.limit = 0 /\ batch.executed > 0 /\ Len(batch.failures) = 1
    /\ batch.failures[1].err = "STR_ERROR_TERRAFORM_LIMIT_REACHED"
    /\ IterIsValid(batch.iter)

\* The owner's budget was below one corner at the start: no command at all.
C25_WitnessNoBudget ==
    /\ batch # BatchNone /\ batch.pc = "done" /\ batch.issued = 0
    /\ batch.limit = 0 /\ IterIsValid(batch.iter)
    /\ batch.result.last_error = "STR_ERROR_TERRAFORM_LIMIT_REACHED"


\* A CmdTerraformLand that has just returned STR_ERROR_TERRAFORM_LIMIT_REACHED.
FailedForBudget(c) ==
    c # CmdNone /\ ~c.ok /\ c.err = "STR_ERROR_TERRAFORM_LIMIT_REACHED"

\* C26: a CmdTerraformLand call that fails because the owner's terraform
\* budget is exceeded has performed no mutating action: no per-tile terraform
\* hook or clear command has been invoked with DC_EXEC, and heights and
\* budget are what they were.
C26_BudgetFailureMutatesNothing ==
    [][(cmd = CmdNone /\ FailedForBudget(cmd')) =>
          (cmd'.hooked = {} /\ heights' = heights /\ terraform_limit' = terraform_limit)]_vars

\* What holds of a call rejected for the budget: the stored heights and the
\* budget are unchanged, and without DC_EXEC no hook has run with DC_EXEC.
C26_BudgetFailureKeepsHeightsAndBudget ==
    [][(cmd = CmdNone /\ FailedForBudget(cmd')) =>
          /\ heights' = heights /\ terraform_limit' = terraform_limit
          /\ (~cmd'.exec => cmd'.hooked = {})]_vars

\* A call with DC_EXEC rejected for the budget after pass 1 ran the hooks of
\* its dirty tiles with DC_EXEC.
C26_HooksRanBeforeBudgetTest ==
    FailedForBudget(cmd) /\ cmd.exec /\ cmd.hooked # {}


\* The command the inner loop of TerraformTiles is about to issue, run without
\* DC_EXEC in the current state.
NextTestCommand(b) ==
    DoCommand(b.t, SLOPE_N, IF b.curh > b.h THEN 0 ELSE 1, FALSE)

AtInnerStep(b) == b # BatchNone /\ b.exec /\ b.pc = "inner" /\ b.curh # b.h

\* C27: with DC_EXEC, TerraformTiles never executes a step it cannot afford:
\* every executed command was first run successfully without DC_EXEC, the sum
\* of the costs of the executed steps never exceeds available_money, and at
\* the first step whose cost would make the remaining money negative the
\* batch stops without executing that step.
C27_NeverExecutesUnaffordable ==
    /\ [](batch # BatchNone /\ batch.exec => batch.result.cost <= batch.available_money_arg)
    /\ [][AtInnerStep(batch) =>
            /\ batch'.executed # batch.executed =>
                  /\ NextTestCommand(batch).res.ok
                  /\ batch'.executed = batch.executed + 1
                  /\ batch'.result.cost = batch.result.cost + NextTestCommand(batch).res.cost
                  /\ batch'.result.cost <= batch.available_money_arg
            /\ (/\ NextTestCommand(batch).res.ok
                /\ batch.result.cost + NextTestCommand(batch).res.cost > batch.available_money_arg)
                  => /\ batch'.pc = "done" /\ batch'.executed = batch.executed
                     /\ batch'.result.cost = batch.result.cost
                     /\ heights' = heights /\ terraform_limit' = terraform_limit]_vars

\* The batch stopped for lack of money after it had executed steps, with tiles
\* left to visit.
C27_Witness ==
    /\ batch # BatchNone /\ batch.exec /\ batch.pc = "done"
    /\ batch.executed > 0 /\ batch.additional_cash_required > 0
    /\ batch.result.cost <= batch.available_money_arg
    /\ batch.result.cost + batch.additional_cash_required > batch.available_money_arg
    /\ IterIsValid(batch.iter)


\* The tiles of the area's map that the area contains.
DiagonalAreaTiles(da) ==
    { t \in MapTiles(MapOf(da.tile)) : DiagonalContains(da, t) }

DiagonalIterationDone == diter # NoArea /\ ~IsValidTileIndex(diter.tile)

\* C28: a DiagonalTileIterator over a diagonal area D built from two valid
\* corners holds every tile of the map that satisfies D.Contains(tile)
\* exactly once, none skipped and none repeated, and then becomes invalid
\* after finitely many steps; also for areas with a or b equal to -1, for
\* every sign combination of a and b, and when part of the rhombus lies
\* outside the map.
C28_DiagonalIteratorComplete ==
    <>(/\ DiagonalIterationDone
       /\ \A i, j \in 1 .. Len(dyielded) : dyielded[i] = dyielded[j] => i = j
       /\ { dyielded[i] : i \in 1 .. Len(dyielded) } = DiagonalAreaTiles(darea))

\* An area with positive a and negative b, partly outside the map, iterated
\* to its end; the tiles held are the tiles of the map it contains.
C28_Witness ==
    /\ DiagonalIterationDone
    /\ darea.a > 2 /\ darea.b < -2
    /\ Cardinality(DiagonalAreaTiles(darea)) > 4
    /\ Len(dyielded) = Cardinality(DiagonalAreaTiles(darea))
    /\ Len(dyielded) < (Abs(darea.a) * Abs(darea.b) + 1) \div 2

\* An area one tile wide (a = -1), iterated to its end.
C28_WitnessOneWide ==
    /\ DiagonalIterationDone
    /\ darea.a = -1 /\ Abs(darea.b) > 3
    /\ Len(dyielded) = Cardinality(DiagonalAreaTiles(darea))
    /\ Len(dyielded) > 1

\* An area one tile tall (b = -1), iterated to its end.
C28_WitnessOneTall ==
    /\ DiagonalIterationDone
    /\ darea.b = -1 /\ Abs(darea.a) > 3
    /\ Len(dyielded) = Cardinality(DiagonalAreaTiles(darea))
    /\ Len(dyielded) > 1


\* A call of AllocateClipboardBuffer that passed its assertions and returned.
Allocated(c) ==
    c # CallNone /\ c.op = "AllocateClipboardBuffer" /\ c.pc = "returned"
    /\ c.content_size_x >= 1 /\ c.content_size_y >= 1

BufferLaidOut(c) ==
    /\ MapSizeX(BUFFER_MAP) = c.content_size_x + 1
    /\ MapSizeY(BUFFER_MAP) = c.content_size_y + 1
    /\ c.size = MapSizeX(BUFFER_MAP) * MapSizeY(BUFFER_MAP)
    /\ DOMAIN c.m = 0 .. (c.size - 1)
    /\ \A i \in DOMAIN c.m :
         IF i % MapSizeX(BUFFER_MAP) = c.content_size_x
            \/ i \div MapSizeX(BUFFER_MAP) = c.content_size_y
         THEN c.m[i].type = "MP_VOID"
         ELSE c.m[i].type = "MP_CLEAR" /\ c.m[i].ground = CLEAR_END

\* C29: after AllocateClipboardBuffer(buffer, cx, cy) for a content size
\* accepted by its assertions, also on a buffer allocated or emptied before,
\* the buffer has size_x = cx + 1, size_y = cy + 1, size = size_x * size_y,
\* every tile of the last column and of the last row is void, and every
\* other tile carries the ground CLEAR_END.
C29_AllocatedBufferLayout == Allocated(call) => BufferLaidOut(call)

\* What holds: the layout of a buffer whose size_x and size_y are below 256.
C29_LayoutBelow256 ==
    (/\ Allocated(call)
     /\ call.content_size_x < UINT8_RANGE - 1
     /\ call.content_size_y < UINT8_RANGE - 1) => BufferLaidOut(call)

\* The widest content that is laid out as claimed.
C29_WidestReached ==
    /\ Allocated(call)
    /\ call.content_size_x = UINT8_RANGE - 2 /\ call.content_size_y = AllocSmall
    /\ BufferLaidOut(call)


\* The smallest content width the layout is wrong for: the last row of the
\* buffer is not void.
C29_LastRowNotVoid ==
    /\ Allocated(call)
    /\ call.content_size_x = UINT8_RANGE - 1 /\ call.content_size_y = 1
    /\ call.m[MapSizeX(BUFFER_MAP)] = CallocTile
    /\ call.m[2 * MapSizeX(BUFFER_MAP) - 1].type = "MP_VOID"

\* A content 256 tiles wide: no tile carries CLEAR_END.
C29_NoGroundMarker ==
    /\ Allocated(call)
    /\ call.content_size_x = UINT8_RANGE /\ call.content_size_y = 1
    /\ \A i \in DOMAIN call.m : call.m[i].ground # CLEAR_END

=============================================================================
